---- MODULE Spec2Model ----
(***************************************************************************)
(* A model of @_linked/core: the shape metadata registry, the mutation     *)
(* compilers, the query-value tracing layer, the select query factory and  *)
(* the store routing layer.  Each component has its own specification      *)
(* (SpecRegistry, SpecMutation, SpecTrace, SpecSelect, SpecStorage) over   *)
(* the one set of variables; a component that a specification does not     *)
(* exercise keeps the value its Init gave it.                              *)
(***************************************************************************)
EXTENDS Integers, Sequences, FiniteSets, TLC

VARIABLES
  \* ---- shape metadata registry (shapes/SHACL.ts, utils/Package.ts, utils/ShapeClass.ts)
  shape,                  \* class -> its own static `shape` (NoShape when the class has none)
  shapeCallbacks,         \* class -> its own static `shapeCallbacks` array, when it has one
  nodeShapeToShapeClass,  \* NodeShape id -> registered class ("" when the id is not a key)
  shouldResetCache,       \* a deferred cache clear is scheduled
  resetTimers,            \* the setTimeout(0) callbacks of addNodeShapeToShapeClass not run yet
  nextOid,                \* identity of the next PropertyShape object created
  lastReg,                \* the last property registration that ran, or with label "" the
                          \* class linkedShape was last applied to again (observation)
  defined,                \* class -> how far the module's evaluation of its definition got
  targetClass,            \* class -> the id of its own static targetClass ("" when it has none)
  subShapesCache,         \* utils/ShapeClass.ts subShapesCache: key -> cached classes
  mostSpecificSubShapesCache, \* mostSpecificSubShapesCache: key -> cached classes
  \* ---- mutation compilers (queries/MutationQuery.ts, CreateQuery.ts, UpdateQuery.ts)
  payload,                \* the caller's payload object
  mutation,               \* what the factory constructor produced for it
  entry,                  \* the last QueryParser mutation call and how it ended (observation)
  \* ---- query value graph (queries/SelectQuery.ts)
  nodes,                  \* the QueryBuilderObjects created so far
  reads,                  \* node -> the PropertyShapes matched on the way to it (observation)
  traceError,             \* the last property read or filter call threw
  whereStack,             \* the where() calls whose filter callback is still running
  evaluations,            \* the Evaluation objects created so far
  \* ---- select query factory and Shape.select (queries/SelectQuery.ts, shapes/Shape.ts)
  readyState,             \* document.readyState, "none" when there is no document
  factory,                \* the SelectQueryFactory of the Shape.select call
  tasks,                  \* callbacks scheduled and not run yet
  received,               \* the query objects handed to the store, in order
  \* ---- store routing (utils/LinkedStorage.ts)
  defaultStore,           \* LinkedStorage.defaultStore ("" when unset)
  shapeToStore,           \* LinkedStorage.shapeToStore: class -> store ("" when no entry)
  lastCall,               \* the last LinkedStorage query call and its outcome (observation)
  storeCalls,             \* the store methods invoked so far
  \* ---- context values (queries/QueryContext.ts)
  queryContext,           \* the queryContext map: name -> its value, when the name is a key
  lastSet,                \* the last setQueryContext call (observation)
  \* ---- result validation (queries/SelectQuery.ts isValidResult)
  validation,             \* a select description, a result and what isValidResult returned
  \* ---- calls chained onto the promise of Shape.select (queries/SelectQuery.ts)
  chained,                \* the where/limit/sortBy/one calls made on the promise (observation)
  \* ---- property decorators (shapes/SHACL.ts)
  decorated,              \* the <<class, label>> pairs property decorators ran for (observation)
  \* ---- filters attached by where() (queries/SelectQuery.ts)
  attached,               \* <<set, heap size>> for each where() that returned (observation)
  \* ---- time-boxed results (utils/cached.ts)
  timeCache,              \* the _cache map: key -> its entry, when the key is set
  now,                    \* Date.now()
  lastCached              \* the last cached() call and what it returned (observation)

registryVars == <<shape, shapeCallbacks, nodeShapeToShapeClass, shouldResetCache, resetTimers,
                  nextOid, lastReg, defined, targetClass, subShapesCache,
                  mostSpecificSubShapesCache>>
mutationVars == <<payload, mutation, entry>>
traceVars    == <<nodes, reads, traceError, whereStack, evaluations>>
selectVars   == <<readyState, factory, tasks, received>>
storageVars  == <<defaultStore, shapeToStore, lastCall, storeCalls>>
utilVars     == <<queryContext, lastSet, validation, chained, decorated, attached,
                  timeCache, now, lastCached>>
\* utilVars without the variables of one component
exceptContext    == <<validation, chained, decorated, attached, timeCache, now, lastCached>>
exceptValidation == <<queryContext, lastSet, chained, decorated, attached, timeCache, now,
                      lastCached>>
exceptChained    == <<queryContext, lastSet, validation, decorated, attached, timeCache, now,
                      lastCached>>
exceptDeclared   == <<queryContext, lastSet, validation, chained, attached, timeCache, now,
                      lastCached>>
exceptAttached   == <<queryContext, lastSet, validation, chained, decorated, timeCache, now,
                      lastCached>>
exceptCached     == <<queryContext, lastSet, validation, chained, decorated, attached>>
vars == <<registryVars, mutationVars, traceVars, selectVars, storageVars, utilVars>>

(***************************************************************************)
(* Optional values: `undefined` is the empty set, a value v is {v}.        *)
(***************************************************************************)
None == {}
Some(v) == {v}
The(s) == CHOOSE v \in s : TRUE

(***************************************************************************)
(* The class hierarchy (JavaScript prototype chain of the shape classes).  *)
(***************************************************************************)
ShapeClasses == {"Shape", "Person", "Employee", "Pet"}

\* Object.getPrototypeOf(shapeClass); the base class Shape extends nothing
getPrototypeOf ==
  [c \in ShapeClasses |->
     CASE c = "Person"   -> "Shape"
       [] c = "Employee" -> "Person"
       [] c = "Pet"      -> "Shape"
       [] OTHER          -> "Function"]

RECURSIVE PrototypeChain(_)
\* c, then Object.getPrototypeOf(c), ... up to and including Shape
PrototypeChain(c) ==
  IF c \notin ShapeClasses THEN <<>>
  ELSE <<c>> \o PrototypeChain(getPrototypeOf[c])

\* a.prototype instanceof b
hasSuperClass(a, b) ==
  /\ a \in ShapeClasses
  /\ a # b
  /\ \E i \in 1..Len(PrototypeChain(a)) : PrototypeChain(a)[i] = b

(***************************************************************************)
(* NodeShape and PropertyShape records.                                    *)
(***************************************************************************)
packageName == "pkg"

getNodeShapeUri(pkg, shapeName) == "module/" \o pkg \o "/shape/" \o shapeName

NoShape == [id |-> "", label |-> "", extends |-> "", propertyShapes |-> <<>>]

\* a decorator's nodeKind: absent, one node kind, or an array of node kinds
NoNodeKind == [isArray |-> FALSE, ids |-> <<>>]
OneNodeKind(k) == [isArray |-> FALSE, ids |-> <<k>>]
NodeKindArray(ks) == [isArray |-> TRUE, ids |-> ks]

normalizeNodeKind(nodeKind, defaultNodeKind) ==
  IF nodeKind = NoNodeKind THEN defaultNodeKind
  ELSE IF nodeKind.isArray THEN
    LET ids == {nodeKind.ids[i] : i \in 1..Len(nodeKind.ids)}
        includesBlank == "BlankNode" \in ids
        includesNamed == "IRI" \in ids
        includesLiteral == "Literal" \in ids
    IN IF includesBlank /\ includesNamed THEN Some("BlankNodeOrIRI")
       ELSE IF includesLiteral /\ includesNamed THEN Some("IRIOrLiteral")
       ELSE IF includesLiteral /\ includesBlank THEN Some("BlankNodeOrLiteral")
       ELSE IF Len(nodeKind.ids) > 0 THEN Some(nodeKind.ids[1]) ELSE None
  ELSE Some(nodeKind.ids[1])

\* the default node kind each property decorator passes on
DefaultNodeKind(decorator) ==
  CASE decorator = "literalProperty" -> Some("Literal")
    [] decorator = "objectProperty"  -> Some("IRI")
    [] OTHER                         -> None

\* createPropertyShape up to (not including) its onShapeSetup call
NewPropertyShape(config, propertyKey, defaultNodeKind, oid) ==
  [oid       |-> oid,
   id        |-> "",
   label     |-> propertyKey,
   minCount  |-> IF config.required THEN Some(1)
                 ELSE IF config.minCount # None /\ The(config.minCount) # 0
                      THEN config.minCount ELSE None,
   maxCount  |-> IF config.maxCount # None /\ The(config.maxCount) # 0
                 THEN config.maxCount ELSE None,
   datatype  |-> config.datatype,
   nodeKind  |-> normalizeNodeKind(config.nodeKind, defaultNodeKind),
   valueShape |-> "",
   parentNodeShape |-> ""]

(***************************************************************************)
(* The registry as one value, so that the registration code can be written *)
(* as functions from registry to registry.                                 *)
(***************************************************************************)
Registry ==
  [shape |-> shape, shapeCallbacks |-> shapeCallbacks,
   nodeShapeToShapeClass |-> nodeShapeToShapeClass,
   shouldResetCache |-> shouldResetCache, resetTimers |-> resetTimers,
   nextOid |-> nextOid, lastReg |-> lastReg]

NoCallbacks == [has |-> FALSE, cbs |-> <<>>]

NoConfig ==
  [required |-> FALSE, minCount |-> None, maxCount |-> None, nodeKind |-> NoNodeKind,
   datatype |-> "", shape |-> "", decorator |-> ""]

NoReg == [cls |-> "", label |-> "", config |-> NoConfig, inherited |-> None, stored |-> None]

EmptyRegistry ==
  [shape |-> [c \in ShapeClasses |-> NoShape],
   shapeCallbacks |-> [c \in ShapeClasses |-> NoCallbacks],
   nodeShapeToShapeClass |-> [c \in ShapeClasses |-> ""],
   shouldResetCache |-> FALSE, resetTimers |-> 0, nextOid |-> 1, lastReg |-> NoReg]

\* targetShapeClass.hasOwnProperty('shape')
hasOwnShape(R, c) == R.shape[c].id # ""

RECURSIVE StaticShape(_, _)
\* shapeClass.shape: a static member, read through the prototype chain
StaticShape(R, c) ==
  IF c \notin ShapeClasses THEN NoShape
  ELSE IF hasOwnShape(R, c) THEN R.shape[c]
  ELSE StaticShape(R, getPrototypeOf[c])

RECURSIVE StaticShapeOwner(_, _)
\* the class whose own `shape` the read shapeClass.shape returns ("" when undefined)
StaticShapeOwner(R, c) ==
  IF c \notin ShapeClasses THEN ""
  ELSE IF hasOwnShape(R, c) THEN c
  ELSE StaticShapeOwner(R, getPrototypeOf[c])

RECURSIVE CallbacksHolder(_, _)
\* the class whose own array the read targetShapeClass['shapeCallbacks'] returns ("" when undefined)
CallbacksHolder(R, c) ==
  IF c \notin ShapeClasses THEN ""
  ELSE IF R.shapeCallbacks[c].has THEN c
  ELSE CallbacksHolder(R, getPrototypeOf[c])

\* the key of nodeShapeToShapeClass that holds NodeShape id `id`: the class the id was made for
ShapeIdKey(id) ==
  IF \E c \in ShapeClasses : getNodeShapeUri(packageName, c) = id
  THEN CHOOSE c \in ShapeClasses : getNodeShapeUri(packageName, c) = id
  ELSE ""

getShapeClass(R, id) ==
  IF id = "" \/ ShapeIdKey(id) = "" THEN "" ELSE R.nodeShapeToShapeClass[ShapeIdKey(id)]

\* the else branch of safeCallback in onShapeSetup: keep the callback for later
PushCallback(R, target, cb) ==
  LET holder == CallbacksHolder(R, target) IN
  IF holder = ""
  THEN [R EXCEPT !.shapeCallbacks[target] = [has |-> TRUE, cbs |-> <<cb>>]]
  ELSE [R EXCEPT !.shapeCallbacks[holder].cbs = Append(@, cb)]

\* connectValueShape: the PropertyShape with its valueShape set when the value class has a
\* shape, and the registry with the deferred callback when it has none
connectValueShapeProperty(R, config, property) ==
  IF config.shape # "" /\ StaticShape(R, config.shape).id # ""
  THEN [property EXCEPT !.valueShape = StaticShape(R, config.shape).id]
  ELSE property

connectValueShape(R, config, property) ==
  IF config.shape # "" /\ StaticShape(R, config.shape).id = ""
  THEN PushCallback(R, config.shape,
                    [kind |-> "valueShape", config |-> config, property |-> property])
  ELSE R

\* Index of the own PropertyShape of class c labelled `label`, 0 when none
OwnPropertyIndex(R, c, label) ==
  LET ps == R.shape[c].propertyShapes IN
  IF \E i \in 1..Len(ps) : ps[i].label = label
  THEN CHOOSE i \in 1..Len(ps) : ps[i].label = label /\ \A j \in 1..(i - 1) : ps[j].label # label
  ELSE 0

RECURSIVE getPropertyShapeFrom(_, _, _, _)
\* the loop of NodeShape.getPropertyShape, started at class c
getPropertyShapeFrom(R, c, label, checkSubShapes) ==
  IF c \notin ShapeClasses \/ StaticShape(R, c).id = "" THEN None
  ELSE LET owner == StaticShapeOwner(R, c)
           i == OwnPropertyIndex(R, owner, label)
       IN IF i # 0 THEN Some(R.shape[owner].propertyShapes[i])
          ELSE IF checkSubShapes /\ c # "Shape"
               THEN getPropertyShapeFrom(R, getPrototypeOf[c], label, checkSubShapes)
               ELSE None

\* NodeShape.getPropertyShape(label, checkSubShapes) on the NodeShape of class c
getPropertyShape(R, c, label, checkSubShapes) ==
  LET shapeClass == getShapeClass(R, R.shape[c].id) IN
  IF shapeClass = ""
  THEN LET i == OwnPropertyIndex(R, c, label)
       IN IF i = 0 THEN None ELSE Some(R.shape[c].propertyShapes[i])
  ELSE getPropertyShapeFrom(R, shapeClass, label, checkSubShapes)

\* Object.assign(existing, propertyShape): the fields createPropertyShape set on the new
\* object overwrite those of the existing one; its identity, id and owner stay
ObjectAssign(existing, propertyShape) ==
  [existing EXCEPT
     !.label = propertyShape.label,
     !.minCount = IF propertyShape.minCount # None THEN propertyShape.minCount ELSE @,
     !.maxCount = IF propertyShape.maxCount # None THEN propertyShape.maxCount ELSE @,
     !.datatype = IF propertyShape.datatype # "" THEN propertyShape.datatype ELSE @,
     !.valueShape = IF propertyShape.valueShape # "" THEN propertyShape.valueShape ELSE @,
     !.nodeKind = propertyShape.nodeKind]

\* The nearest declaration of `label` on a proper ancestor of class c
InheritedProperty(R, c, label) ==
  IF c \notin ShapeClasses \/ getPrototypeOf[c] \notin ShapeClasses THEN None
  ELSE getPropertyShapeFrom(R, getPrototypeOf[c], label, TRUE)

\* the PropertyShape is added whether or not the class has one with its label
registerPropertyShapeAdded(R, c, config, propertyShape) ==
  LET added == [propertyShape EXCEPT
                  !.id = R.shape[c].id \o "/" \o propertyShape.label,
                  !.parentNodeShape = R.shape[c].id]
  IN [R EXCEPT !.shape[c].propertyShapes = Append(@, added),
               !.lastReg = [cls |-> c, label |-> propertyShape.label, config |-> config,
                            inherited |-> InheritedProperty(R, c, propertyShape.label),
                            stored |-> Some(added)]]

\* registerPropertyShape(shape, propertyShape), shape the NodeShape of class c
registerPropertyShape(R, c, config, propertyShape) ==
  LET existing == getPropertyShape(R, c, propertyShape.label, FALSE)
      i == OwnPropertyIndex(R, c, propertyShape.label)
      added == [propertyShape EXCEPT
                  !.id = R.shape[c].id \o "/" \o propertyShape.label,
                  !.parentNodeShape = R.shape[c].id]
      stored == IF existing # None /\ i # 0
                THEN ObjectAssign(R.shape[c].propertyShapes[i], propertyShape)
                ELSE added
      reg == [cls |-> c, label |-> propertyShape.label, config |-> config,
              inherited |-> InheritedProperty(R, c, propertyShape.label),
              stored |-> Some(stored)]
  IN IF existing # None /\ i # 0
     THEN [R EXCEPT !.shape[c].propertyShapes[i] = stored, !.lastReg = reg]
     ELSE [R EXCEPT !.shape[c].propertyShapes = Append(@, stored), !.lastReg = reg]

\* property.valueShape = {id: nodeShape.id} on the PropertyShape object `oid`, wherever it is
SetValueShape(R, oid, id) ==
  LET set(ps) ==
        LET F[n \in 0..Len(ps)] ==
              IF n = 0 THEN <<>>
              ELSE Append(F[n - 1], IF ps[n].oid = oid THEN [ps[n] EXCEPT !.valueShape = id]
                                    ELSE ps[n])
        IN F[Len(ps)]
  IN [R EXCEPT !.shape =
        [c \in ShapeClasses |->
           [R.shape[c] EXCEPT !.propertyShapes = set(R.shape[c].propertyShapes)]]]

\* One deferred callback, called with the NodeShape of class c
RunCallback(R, cb, c) ==
  IF cb.kind = "valueShape"
  THEN SetValueShape(R, cb.property.oid, R.shape[c].id)
  ELSE registerPropertyShape(connectValueShape(R, cb.config, cb.property), c, cb.config,
                             connectValueShapeProperty(R, cb.config, cb.property))

RECURSIVE RunCallbacks(_, _, _, _)
\* callbacks.forEach((callback) => callback(nodeShape)) over the elements the array had
RunCallbacks(R, cbs, i, c) ==
  IF i > Len(cbs) THEN R
  ELSE RunCallbacks(RunCallback(R, cbs[i], c), cbs, i + 1, c)

\* onShapeSetup(shapeClass, callback) for a class given as a class
onShapeSetup(R, target, cb) ==
  IF hasOwnShape(R, target) THEN RunCallback(R, cb, target)
  ELSE PushCallback(R, target, cb)

\* createPropertyShape(config, propertyKey, defaultNodeKind, shapeClass), as a property
\* decorator on class c calls it
createPropertyShape(R, config, propertyKey, c) ==
  LET property == NewPropertyShape(config, propertyKey,
                                   DefaultNodeKind(config.decorator), R.nextOid)
  IN onShapeSetup([R EXCEPT !.nextOid = @ + 1], c,
                  [kind |-> "register", config |-> config, property |-> property])

\* a registration that schedules a clear whether or not one is scheduled already
addNodeShapeToShapeClassEach(R, nodeShape, c) ==
  IF nodeShape.id = "" THEN R
  ELSE [R EXCEPT !.nodeShapeToShapeClass[ShapeIdKey(nodeShape.id)] = c,
                 !.shouldResetCache = TRUE, !.resetTimers = @ + 1]

\* addNodeShapeToShapeClass(nodeShape, shapeClass)
addNodeShapeToShapeClass(R, nodeShape, c) ==
  IF nodeShape.id = "" THEN R
  ELSE LET set == [R EXCEPT !.nodeShapeToShapeClass[ShapeIdKey(nodeShape.id)] = c]
       IN IF ~R.shouldResetCache
          THEN [set EXCEPT !.shouldResetCache = TRUE, !.resetTimers = @ + 1]
          ELSE set

\* extends: the NodeShape id of the class c extends, unless that class is Shape
ExtendsOf(R, c) ==
  LET extendingShapeClass == getPrototypeOf[c] IN
  IF StaticShape(R, extendingShapeClass).id # "" /\ extendingShapeClass # "Shape"
  THEN StaticShape(R, extendingShapeClass).id ELSE ""

\* a NodeShape is created whether or not the class has one
applyLinkedShapeAnew(R, c) ==
  LET nodeShape == [id |-> getNodeShapeUri(packageName, c), label |-> c,
                    extends |-> "", propertyShapes |-> <<>>]
      R1 == addNodeShapeToShapeClass([R EXCEPT !.shape[c] = nodeShape], nodeShape, c)
      R2 == [R1 EXCEPT !.shape[c].extends = ExtendsOf(R1, c)]
      holder == CallbacksHolder(R2, c)
  IN IF holder = "" THEN R2
     ELSE [RunCallbacks(R2, R2.shapeCallbacks[holder].cbs, 1, c)
             EXCEPT !.shapeCallbacks[c] = NoCallbacks]

\* applyLinkedShape(constructor) of linkedPackage(packageName)
applyLinkedShape(R, c) ==
  IF hasOwnShape(R, c) THEN R
  ELSE
    LET nodeShape == [id |-> getNodeShapeUri(packageName, c), label |-> c,
                      extends |-> "", propertyShapes |-> <<>>]
        R1 == addNodeShapeToShapeClass([R EXCEPT !.shape[c] = nodeShape], nodeShape, c)
        R2 == [R1 EXCEPT !.shape[c].extends = ExtendsOf(R1, c)]
        holder == CallbacksHolder(R2, c)
    IN IF holder = "" THEN R2
       ELSE [RunCallbacks(R2, R2.shapeCallbacks[holder].cbs, 1, c)
               EXCEPT !.shapeCallbacks[c] = NoCallbacks]

(***************************************************************************)
(* Registry actions.  A module evaluates its class definitions one after   *)
(* the other: the property decorators of a class run when the class is     *)
(* created, its class decorator after them, and a class can only extend a  *)
(* class whose definition is complete.                                     *)
(***************************************************************************)
MaxDecl == 2

Config(decorator, required, minCount, maxCount, nodeKind, datatype, shapeClass) ==
  [required |-> required, minCount |-> minCount, maxCount |-> maxCount,
   nodeKind |-> nodeKind, datatype |-> datatype, shape |-> shapeClass,
   decorator |-> decorator]

\* the decorator calls the declarations are drawn from: <<propertyKey, config>>
Declarations ==
  { <<"name", Config("literalProperty", FALSE, None, Some(1), NoNodeKind, "string", "")>>,
    <<"name", Config("literalProperty", TRUE, None, Some(1), NoNodeKind, "string", "")>>,
    <<"name", Config("literalProperty", FALSE, Some(2), None, NoNodeKind, "string", "")>>,
    <<"name", Config("literalProperty", FALSE, Some(1), Some(2), NoNodeKind, "", "")>>,
    <<"name", Config("literalProperty", FALSE, Some(0), None, NoNodeKind, "", "")>>,
    <<"name", Config("literalProperty", FALSE, None, Some(0), NoNodeKind, "", "")>>,
    <<"name", Config("literalProperty", FALSE, None, None, NoNodeKind, "", "")>>,
    <<"bestFriend", Config("objectProperty", TRUE, None, Some(1),
                           OneNodeKind("BlankNodeOrIRI"), "", "Person")>>,
    <<"bestFriend", Config("objectProperty", FALSE, None, None, NoNodeKind, "", "Person")>>,
    <<"bestFriend", Config("objectProperty", FALSE, None, None,
                           OneNodeKind("IRIOrLiteral"), "", "Person")>>,
    <<"bestFriend", Config("objectProperty", FALSE, None, None,
                           OneNodeKind("IRI"), "", "Pet")>>,
    <<"bestFriend", Config("objectProperty", FALSE, None, Some(2),
                           NodeKindArray(<<"BlankNode", "IRI">>), "", "Pet")>> }

UserClasses == ShapeClasses \ {"Shape"}

\* type('Person'): the id of the class a shape class targets
TypeId(c) == "type:" \o c

\* every shape class declares a static targetClass of its own; Shape's is null
OwnTargetClasses == [c \in ShapeClasses |-> IF c = "Shape" THEN "" ELSE TypeId(c)]

RECURSIVE StaticTargetClass(_, _)
\* shape.targetClass: a static member, read through the prototype chain
StaticTargetClass(tc, c) ==
  IF c \notin ShapeClasses THEN ""
  ELSE IF tc[c] # "" THEN tc[c]
  ELSE StaticTargetClass(tc, getPrototypeOf[c])

\* shape.name + shape.prototype.constructor.toString().substring(0, 80)
SourceKey(c) == c \o "class " \o c

\* getShapeKey(shape), which getKey(shape) returns for a single class
getShapeKey(tc, c) ==
  IF StaticTargetClass(tc, c) # "" THEN StaticTargetClass(tc, c) ELSE SourceKey(c)

CacheKeys == UNION {{TypeId(c), SourceKey(c), c} : c \in ShapeClasses}

EmptyCache == [key \in CacheKeys |-> None]

\* filterShapeClasses(hasSubClass.bind(null, shape)): the registered classes that extend
\* shapeClass.  The sort that follows it is a function of this result and of the order of the
\* map, the same for a cached and for a fresh result; results are kept as sets.
filterShapeClasses(R, shapeClass) ==
  {d \in ShapeClasses :
     /\ \E k \in ShapeClasses : R.nodeShapeToShapeClass[k] = d
     /\ hasSuperClass(d, shapeClass)}

\* filterShapesToMostSpecific(subShapes)
filterShapesToMostSpecific(subShapes) ==
  {subShape \in subShapes :
     ~\E otherSubShape \in subShapes : hasSuperClass(otherSubShape, subShape)}

\* getSubShapesClasses(shape, _internalKey) for a single class: the cache after the call
\* and the classes returned
getSubShapesClasses(R, cache, tc, shapeClass, internalKey) ==
  LET key == IF internalKey # "" THEN internalKey ELSE getShapeKey(tc, shapeClass)
      after == IF cache[key] = None
               THEN [cache EXCEPT ![key] = Some(filterShapeClasses(R, shapeClass))]
               ELSE cache
  IN [cache |-> after, result |-> The(after[key])]

\* getMostSpecificSubShapes(shape) for a single class: both caches after the call and the
\* classes returned
getMostSpecificSubShapes(R, cache, mostSpecific, tc, shapeClass) ==
  LET key == shapeClass
      sub == getSubShapesClasses(R, cache, tc, shapeClass, key)
  IN IF mostSpecific[key] = None
     THEN [cache |-> sub.cache,
           mostSpecific |-> [mostSpecific EXCEPT
                               ![key] = Some(filterShapesToMostSpecific(sub.result))],
           result |-> filterShapesToMostSpecific(sub.result)]
     ELSE [cache |-> cache, mostSpecific |-> mostSpecific, result |-> The(mostSpecific[key])]

RegistryIdle ==
  /\ shape = EmptyRegistry.shape
  /\ shapeCallbacks = EmptyRegistry.shapeCallbacks
  /\ nodeShapeToShapeClass = EmptyRegistry.nodeShapeToShapeClass
  /\ shouldResetCache = FALSE
  /\ resetTimers = 0
  /\ nextOid = 1
  /\ lastReg = NoReg
  /\ defined = [c \in ShapeClasses |-> IF c = "Shape" THEN "closed" ELSE "undefined"]
  /\ targetClass = OwnTargetClasses
  /\ subShapesCache = EmptyCache
  /\ mostSpecificSubShapesCache = EmptyCache

SetRegistry(R) ==
  /\ shape' = R.shape
  /\ shapeCallbacks' = R.shapeCallbacks
  /\ nodeShapeToShapeClass' = R.nodeShapeToShapeClass
  /\ shouldResetCache' = R.shouldResetCache
  /\ resetTimers' = R.resetTimers
  /\ nextOid' = R.nextOid
  /\ lastReg' = R.lastReg
  /\ UNCHANGED <<targetClass, subShapesCache, mostSpecificSubShapesCache>>

\* evaluation reaches `class c extends <its parent>`
BeginClass(c) ==
  /\ defined[c] = "undefined"
  /\ \A d \in ShapeClasses : defined[d] # "open"
  /\ defined[getPrototypeOf[c]] = "closed"
  /\ defined' = [defined EXCEPT ![c] = "open"]
  /\ UNCHANGED <<shape, shapeCallbacks, nodeShapeToShapeClass, shouldResetCache, resetTimers,
                 nextOid, lastReg, targetClass, subShapesCache, mostSpecificSubShapesCache>>
  /\ UNCHANGED <<mutationVars, traceVars, selectVars, storageVars, utilVars>>

\* @literalProperty(config) / @objectProperty(config) on a member of class c
PropertyDecorator(c, decl) ==
  /\ defined[c] = "open"
  /\ nextOid <= MaxDecl
  /\ decl[2].shape # "" => defined[decl[2].shape] # "undefined"
  /\ SetRegistry(createPropertyShape(Registry, decl[2], decl[1], c))
  /\ decorated' = decorated \cup {<<c, decl[1]>>}
  /\ UNCHANGED defined
  /\ UNCHANGED <<mutationVars, traceVars, selectVars, storageVars, exceptDeclared>>

\* @linkedShape on class c, the last step of its definition
LinkedShape(c) ==
  /\ defined[c] = "open"
  /\ SetRegistry(applyLinkedShape(Registry, c))
  /\ defined' = [defined EXCEPT ![c] = "closed"]
  /\ UNCHANGED <<mutationVars, traceVars, selectVars, storageVars, utilVars>>

\* linkedShape applied once more to a class that was registered before
LinkedShapeAgain(c) ==
  /\ defined[c] = "closed"
  /\ hasOwnShape(Registry, c)
  /\ SetRegistry([applyLinkedShape(Registry, c) EXCEPT !.lastReg = [NoReg EXCEPT !.cls = c]])
  /\ UNCHANGED defined
  /\ UNCHANGED <<mutationVars, traceVars, selectVars, storageVars, utilVars>>

\* the definition of a class that carries no @linkedShape ends
EndClass(c) ==
  /\ defined[c] = "open"
  /\ defined' = [defined EXCEPT ![c] = "closed"]
  /\ UNCHANGED <<shape, shapeCallbacks, nodeShapeToShapeClass, shouldResetCache, resetTimers,
                 nextOid, lastReg, targetClass, subShapesCache, mostSpecificSubShapesCache>>
  /\ UNCHANGED <<mutationVars, traceVars, selectVars, storageVars, utilVars>>

\* a call of getSubShapesClasses(c) once the modules are evaluated
CallGetSubShapesClasses(c) ==
  /\ defined[c] = "closed"
  /\ \A d \in ShapeClasses : defined[d] # "open"
  /\ subShapesCache' = getSubShapesClasses(Registry, subShapesCache, targetClass, c, "").cache
  /\ UNCHANGED <<shape, shapeCallbacks, nodeShapeToShapeClass, shouldResetCache, resetTimers, nextOid,
                 lastReg, defined, targetClass, mostSpecificSubShapesCache>>
  /\ UNCHANGED <<mutationVars, traceVars, selectVars, storageVars, utilVars>>

\* a call of getMostSpecificSubShapes(c) once the modules are evaluated
CallGetMostSpecificSubShapes(c) ==
  /\ defined[c] = "closed"
  /\ \A d \in ShapeClasses : defined[d] # "open"
  /\ LET r == getMostSpecificSubShapes(Registry, subShapesCache, mostSpecificSubShapesCache,
                                       targetClass, c)
     IN /\ subShapesCache' = r.cache
        /\ mostSpecificSubShapesCache' = r.mostSpecific
  /\ UNCHANGED <<shape, shapeCallbacks, nodeShapeToShapeClass, shouldResetCache, resetTimers, nextOid,
                 lastReg, defined, targetClass>>
  /\ UNCHANGED <<mutationVars, traceVars, selectVars, storageVars, utilVars>>

\* the setTimeout(0) callback of addNodeShapeToShapeClass
ResetCaches ==
  /\ resetTimers > 0
  /\ \A d \in ShapeClasses : defined[d] # "open"
  /\ resetTimers' = resetTimers - 1
  /\ shouldResetCache' = FALSE
  /\ subShapesCache' = EmptyCache
  /\ mostSpecificSubShapesCache' = EmptyCache
  /\ UNCHANGED <<shape, shapeCallbacks, nodeShapeToShapeClass, nextOid, lastReg, defined,
                 targetClass>>
  /\ UNCHANGED <<mutationVars, traceVars, selectVars, storageVars, utilVars>>

(***************************************************************************)
(* The shape classes of the program the query layers are run against:      *)
(* what the registry holds once the module that defines them is evaluated. *)
(***************************************************************************)
FixtureDeclarations ==
  LET lit(req, max) == Config("literalProperty", req, None, max, NoNodeKind, "string", "")
      obj(max, cls) == Config("objectProperty", FALSE, None, max, NoNodeKind, "", cls)
      prop(c, key, config) == [cls |-> c, key |-> key, config |-> config]
      linked(c) == [cls |-> c, key |-> "", config |-> NoConfig]
  IN << prop("Pet", "bestFriend", obj(Some(1), "Pet")),
        linked("Pet"),
        prop("Person", "name", lit(TRUE, Some(1))),
        prop("Person", "nickNames", lit(FALSE, None)),
        prop("Person", "bestFriend", obj(Some(1), "Person")),
        prop("Person", "friends", obj(None, "Person")),
        prop("Person", "pets", obj(None, "Pet")),
        prop("Person", "knows", obj(None, "")),
        linked("Person"),
        prop("Employee", "department", lit(FALSE, Some(1))),
        linked("Employee") >>

\* one decorator of the fixture module applied to the registry
ApplyDeclaration(R, d) ==
  IF d.key = "" THEN applyLinkedShape(R, d.cls)
  ELSE createPropertyShape(R, d.config, d.key, d.cls)

RECURSIVE EvaluateModule(_, _)
\* the decorators of a module run one after the other, each on the registry
\* the one before it left
EvaluateModule(R, decls) ==
  IF decls = << >> THEN R
  ELSE CHOOSE out \in { EvaluateModule(next, Tail(decls)) :
                          next \in { ApplyDeclaration(R, Head(decls)) } } : TRUE

FixtureRegistry ==
  [EvaluateModule(EmptyRegistry, FixtureDeclarations) EXCEPT !.shouldResetCache = FALSE, !.resetTimers = 0]

RegistryLoaded ==
  /\ shape = FixtureRegistry.shape
  /\ shapeCallbacks = FixtureRegistry.shapeCallbacks
  /\ nodeShapeToShapeClass = FixtureRegistry.nodeShapeToShapeClass
  /\ shouldResetCache = FixtureRegistry.shouldResetCache
  /\ resetTimers = FixtureRegistry.resetTimers
  /\ nextOid = FixtureRegistry.nextOid
  /\ lastReg = FixtureRegistry.lastReg
  /\ defined = [c \in ShapeClasses |-> "closed"]
  /\ targetClass = OwnTargetClasses
  /\ subShapesCache = EmptyCache
  /\ mostSpecificSubShapesCache = EmptyCache

RECURSIVE getPropertyShapesAncestorsFirst(_, _)
\* the traversal with each class's own properties pushed after its ancestors'
getPropertyShapesAncestorsFirst(R, c) ==
  IF c \notin ShapeClasses \/ StaticShape(R, c).id = "" THEN <<>>
  ELSE (IF c = "Shape" THEN <<>> ELSE getPropertyShapesAncestorsFirst(R, getPrototypeOf[c]))
         \o StaticShape(R, c).propertyShapes

RECURSIVE getPropertyShapesFrom(_, _)
\* the loop of NodeShape.getPropertyShapes(true), started at class c
getPropertyShapesFrom(R, c) ==
  IF c \notin ShapeClasses \/ StaticShape(R, c).id = "" THEN <<>>
  ELSE StaticShape(R, c).propertyShapes
         \o (IF c = "Shape" THEN <<>> ELSE getPropertyShapesFrom(R, getPrototypeOf[c]))

\* NodeShape.getPropertyShapes(includeSuperClasses) on the NodeShape of class c
getPropertyShapes(R, c, includeSuperClasses) ==
  IF ~includeSuperClasses \/ getShapeClass(R, R.shape[c].id) = ""
  THEN R.shape[c].propertyShapes
  ELSE getPropertyShapesFrom(R, getShapeClass(R, R.shape[c].id))

\* NodeShape.getUniquePropertyShapes() on the NodeShape of class c: the traversal of
\* getPropertyShapes(true), keeping for each label the first PropertyShape met
getUniquePropertyShapes(R, c) ==
  LET all == getPropertyShapes(R, c, TRUE)
      first == {i \in 1..Len(all) : \A j \in 1..(i - 1) : all[j].label # all[i].label}
      F[n \in 0..Len(all)] ==
        IF n = 0 THEN <<>>
        ELSE IF n \in first THEN Append(F[n - 1], all[n]) ELSE F[n - 1]
  IN F[Len(all)]

\* props.find((p) => p.label === key): the first element with that label, None when none
FindByLabel(props, key) ==
  IF \E i \in 1..Len(props) : props[i].label = key
  THEN Some(props[CHOOSE i \in 1..Len(props) :
                    props[i].label = key /\ \A j \in 1..(i - 1) : props[j].label # key])
  ELSE None

(***************************************************************************)
(* JavaScript values of mutation payloads and of compiled mutations.       *)
(* tag: "lit" a string, "undef", "null", "arr" an array (vals), "obj" a    *)
(* plain object (keys in insertion order, vals), "class" a shape class;    *)
(* compiled values add "ref" {id}, "setmod" {$add?, $remove?}, "node"      *)
(* {shape, fields, __id?} and "error" for a thrown Error.                  *)
(***************************************************************************)
Value(tag, lit, id, keys, vals) ==
  [tag |-> tag, lit |-> lit, id |-> id, keys |-> keys, vals |-> vals]
Lit(x) == Value("lit", x, "", <<>>, <<>>)
Undef == Value("undef", "", "", <<>>, <<>>)
Null == Value("null", "", "", <<>>, <<>>)
Arr(items) == Value("arr", "", "", <<>>, items)
Obj(keys, vals) == Value("obj", "", "", keys, vals)
Cls(c) == Value("class", c, "", <<>>, <<>>)
Thrown(message) == Value("error", message, "", <<>>, <<>>)

\* the value as a condition: if (value)
Truthy(v) == CASE v.tag = "lit" -> v.lit # "" [] v.tag \in {"undef", "null"} -> FALSE [] OTHER -> TRUE

KeyIndex(o, key) ==
  IF \E i \in 1..Len(o.keys) : o.keys[i] = key
  THEN CHOOSE i \in 1..Len(o.keys) : o.keys[i] = key
  ELSE 0

\* key in obj
HasKey(o, key) == KeyIndex(o, key) # 0

\* obj[key]
Get(o, key) == IF HasKey(o, key) THEN o.vals[KeyIndex(o, key)] ELSE Undef

\* delete obj[key]
DeleteKey(o, key) ==
  LET K[n \in 0..Len(o.keys)] ==
        IF n = 0 THEN <<>>
        ELSE IF o.keys[n] # key THEN Append(K[n - 1], o.keys[n]) ELSE K[n - 1]
      V[n \in 0..Len(o.keys)] ==
        IF n = 0 THEN <<>>
        ELSE IF o.keys[n] # key THEN Append(V[n - 1], o.vals[n]) ELSE V[n - 1]
  IN [o EXCEPT !.keys = K[Len(o.keys)], !.vals = V[Len(o.keys)]]

\* a conversion's outcome: what it returned or threw, and its argument as it left it
Conv(out, arg) == [out |-> out, arg |-> arg]

(***************************************************************************)
(* MutationQueryFactory: the compilers of create and update payloads.      *)
(***************************************************************************)
\* the test with the key count it leaves commented out: id is the only key
isNodeReferenceOnlyId(obj) ==
  obj.tag \in {"obj", "arr"} /\ HasKey(obj, "id") /\ Len(obj.keys) = 1

\* typeof obj === 'object' && obj !== null && 'id' in obj
isNodeReference(obj) == obj.tag \in {"obj", "arr"} /\ HasKey(obj, "id")

\* {id: obj.id}
convertNodeReference(obj) == Value("ref", "", Get(obj, "id").lit, <<>>, <<>>)

isSetModification(obj) ==
  LET hasAdd == Truthy(Get(obj, "add"))
      hasRemove == Truthy(Get(obj, "remove"))
      numKeysExpected == (IF hasAdd THEN 1 ELSE 0) + (IF hasRemove THEN 1 ELSE 0)
      numKeys == Len(obj.keys)
  IN hasAdd \/ (hasRemove /\ numKeysExpected = numKeys)

convertSingleRemoveValue(value) ==
  IF isNodeReference(value) THEN convertNodeReference(value)
  ELSE Thrown("Invalid value for $remove")

RECURSIVE convertRemoveItems(_, _, _)
\* obj.map((o) => this.convertSingleRemoveValue(o, shape))
convertRemoveItems(items, i, outs) ==
  IF i > Len(items) THEN Arr(outs)
  ELSE IF convertSingleRemoveValue(items[i]).tag = "error"
       THEN convertSingleRemoveValue(items[i])
       ELSE convertRemoveItems(items, i + 1, Append(outs, convertSingleRemoveValue(items[i])))

convertSetRemoveValue(obj) ==
  IF obj.tag = "arr" THEN convertRemoveItems(obj.vals, 1, <<>>)
  ELSE IF convertSingleRemoveValue(obj).tag = "error" THEN convertSingleRemoveValue(obj)
  ELSE Arr(<<convertSingleRemoveValue(obj)>>)

RECURSIVE convertUpdateValue(_, _, _, _)
RECURSIVE convertItems(_, _, _, _, _, _, _)
RECURSIVE convertNodeDescription(_, _, _)
RECURSIVE convertFields(_, _, _, _, _, _)
RECURSIVE convertSetModification(_, _, _)

\* value.map((o) => this.convertUpdateValue(o, propShape, allowArrays)): items i.. are still
\* to convert, outs and args are the results and the arguments of those before
convertItems(R, items, i, propShape, allowArrays, outs, args) ==
  IF i > Len(items) THEN Conv(Arr(outs), Arr(args))
  ELSE LET r == convertUpdateValue(R, items[i], propShape, allowArrays)
       IN IF r.out.tag = "error"
          THEN Conv(r.out, Arr(args \o <<r.arg>> \o SubSeq(items, i + 1, Len(items))))
          ELSE convertItems(R, items, i + 1, propShape, allowArrays,
                            Append(outs, r.out), Append(args, r.arg))

convertSetAddValue(R, obj, propShape) ==
  IF obj.tag = "arr" THEN convertItems(R, obj.vals, 1, propShape, TRUE, <<>>, <<>>)
  ELSE LET r == convertUpdateValue(R, obj, propShape, TRUE)
       IN IF r.out.tag = "error" THEN r ELSE Conv(Arr(<<r.out>>), r.arg)

convertSetModification(R, obj, propShape) ==
  IF ~Truthy(Get(obj, "add")) /\ ~Truthy(Get(obj, "remove"))
  THEN Conv(Thrown("Set modification should have either add or remove key"), obj)
  ELSE
    LET a == IF Truthy(Get(obj, "add"))
             THEN convertSetAddValue(R, Get(obj, "add"), propShape)
             ELSE Conv(Undef, Undef)
        obj1 == IF Truthy(Get(obj, "add"))
                THEN [obj EXCEPT !.vals[KeyIndex(obj, "add")] = a.arg] ELSE obj
        r == IF Truthy(Get(obj, "remove")) THEN convertSetRemoveValue(Get(obj, "remove"))
             ELSE Undef
    IN IF a.out.tag = "error" THEN Conv(a.out, obj1)
       ELSE IF r.tag = "error" THEN Conv(r, obj1)
       ELSE Conv(Value("setmod", "", "",
                       (IF Truthy(Get(obj, "add")) THEN <<"$add">> ELSE <<>>)
                         \o (IF Truthy(Get(obj, "remove")) THEN <<"$remove">> ELSE <<>>),
                       (IF Truthy(Get(obj, "add")) THEN <<a.out>> ELSE <<>>)
                         \o (IF Truthy(Get(obj, "remove")) THEN <<r>> ELSE <<>>)),
                 obj1)

\* the for (var key in obj) loop of convertNodeDescription: the keys i.. are still to
\* convert, labels and vals are the fields pushed so far
convertFields(R, obj, i, c, labels, vals) ==
  IF i > Len(obj.keys) THEN Conv(Value("node", R.shape[c].id, "", labels, vals), obj)
  ELSE LET propShape == FindByLabel(getPropertyShapes(R, c, TRUE), obj.keys[i])
       IN IF propShape = None THEN Conv(Thrown("Invalid property key"), obj)
          ELSE LET r == convertUpdateValue(R, obj.vals[i], The(propShape), TRUE)
                   obj1 == [obj EXCEPT !.vals[i] = r.arg]
               IN IF r.out.tag = "error" THEN Conv(r.out, obj1)
                  ELSE convertFields(R, obj1, i + 1, c, Append(labels, The(propShape).label),
                                     Append(vals, r.out))

\* convertNodeDescription(obj, shape), shape the NodeShape of class c
convertNodeDescription(R, obj, c) ==
  IF HasKey(obj, "__id") /\ Get(obj, "__id").tag \in {"undef", "null"}
  THEN Conv(Thrown("TypeError"), obj)
  ELSE LET id == IF HasKey(obj, "__id") THEN Get(obj, "__id").lit ELSE ""
           r == convertFields(R, DeleteKey(obj, "__id"), 1, c, <<>>, <<>>)
       IN IF r.out.tag = "error" THEN r ELSE Conv([r.out EXCEPT !.id = id], r.arg)

\* the class whose NodeShape is the value shape of an object value, "" when the code throws
\* before it has one
ValueShapeClass(R, value, propShape) ==
  IF propShape.valueShape # ""
  THEN StaticShapeOwner(R, getShapeClass(R, propShape.valueShape))
  ELSE IF Get(value, "shape").tag = "class"
       THEN StaticShapeOwner(R, Get(value, "shape").lit)
       ELSE ""

convertUpdateValue(R, value, propShape, allowArrays) ==
  CASE value.tag = "lit" -> Conv(value, value)
    [] value.tag = "arr" ->
         IF ~allowArrays
         THEN Conv(Thrown("Nested arrays are not allowed as values of keys"), value)
         ELSE convertItems(R, value.vals, 1, propShape, FALSE, <<>>, <<>>)
    [] value.tag \in {"undef", "null"} -> Conv(Undef, value)
    [] value.tag = "obj" ->
         IF isNodeReference(value) THEN Conv(convertNodeReference(value), value)
         ELSE LET c == ValueShapeClass(R, value, propShape)
                  given == Get(value, "shape")
              IN IF propShape.valueShape # "" /\ c = ""
                 THEN Conv(Thrown("Shape class not found"), value)
                 ELSE IF propShape.valueShape = "" /\ Truthy(given) /\ c = ""
                 THEN Conv(Thrown("The value of property shape is invalid"), value)
                 ELSE IF propShape.valueShape = "" /\ ~Truthy(given)
                 THEN Conv(Thrown("Cannot update properties with plain objects"), value)
                 ELSE IF Truthy(given) /\ (given.tag # "class" \/ StaticShape(R, given.lit).id = "")
                 THEN Conv(Thrown("TypeError"), value)
                 ELSE IF Truthy(given) /\ StaticShape(R, given.lit).id # R.shape[c].id
                 THEN Conv(Thrown("The property shape is reserved"), value)
                 ELSE LET value1 == IF Truthy(given) THEN DeleteKey(value, "shape") ELSE value
                      IN IF isSetModification(value1)
                         THEN convertSetModification(R, value1, propShape)
                         ELSE convertNodeDescription(R, value1, c)
    [] OTHER -> Conv(Thrown("Unsupported update value type"), value)

\* convertUpdateObject(obj, shape, allowTopLevelId), shape the NodeShape of class c
convertUpdateObject(R, obj, c, allowTopLevelId) ==
  IF obj.tag = "obj"
  THEN IF ~allowTopLevelId /\ HasKey(obj, "id")
       THEN Conv(Thrown("You cannot use id in the top level of an update object"), obj)
       ELSE convertNodeDescription(R, obj, c)
  ELSE IF obj.tag = "class" THEN Conv(Thrown("Update functions are not implemented yet"), obj)
  ELSE Conv(Thrown("Invalid update object"), obj)

\* checkNewCount(propShape, numValues): TRUE when it throws
checkNewCount(propShape, numValues) ==
  \/ /\ propShape.maxCount # None /\ The(propShape.maxCount) # 0
     /\ numValues > The(propShape.maxCount)
  \/ /\ propShape.minCount # None /\ The(propShape.minCount) # 0
     /\ numValues < The(propShape.minCount)


(***************************************************************************)
(* Mutation actions: the constructors of CreateQueryFactory and            *)
(* UpdateQueryFactory, called with payloads of bounded size.               *)
(***************************************************************************)
MaxKeys == 2

NestedKeys == {"id", "add", "remove", "name", "__id", "shape"}

\* the values a nested object's key is given
ValuesOfKey(key) ==
  CASE key = "id"     -> {Lit("p2")}
    [] key = "add"    -> {Obj(<<"id">>, <<Lit("p3")>>), Arr(<<Obj(<<"id">>, <<Lit("p3")>>)>>)}
    [] key = "remove" -> {Obj(<<"id">>, <<Lit("p4")>>), Lit("p4")}
    [] key = "name"   -> {Lit("a")}
    [] key = "__id"   -> {Lit("n1")}
    [] key = "shape"  -> {Cls("Person"), Cls("Pet")}

NestedValues == UNION {ValuesOfKey(k) : k \in NestedKeys}

\* the sequences of n distinct nested keys
KeySeqs(n) == {f \in [1..n -> NestedKeys] : \A i, j \in 1..n : i # j => f[i] # f[j]}

\* the plain objects whose keys are ks, in that insertion order
ObjectsWithKeys(ks) ==
  {Obj(ks, vs) : vs \in {f \in [1..Len(ks) -> NestedValues] :
                           \A i \in 1..Len(ks) : f[i] \in ValuesOfKey(ks[i])}}

\* plain objects with 1..MaxKeys distinct keys, in every insertion order
NestedObjects ==
  UNION {UNION {ObjectsWithKeys(ks) : ks \in KeySeqs(n)} : n \in 1..MaxKeys}

FieldValues ==
  {Lit("a"), Null, Undef, Arr(<<>>), Arr(<<Lit("a"), Lit("b")>>),
   Arr(<<Obj(<<"id">>, <<Lit("p2")>>)>>), Arr(<<Obj(<<"name">>, <<Lit("a")>>)>>),
   Arr(<<Arr(<<Lit("a")>>)>>)}
    \cup NestedObjects

FieldKeys == {"name", "nickNames", "bestFriend", "friends", "knows", "department"}

\* the payloads: one property, possibly after a top-level id or __id
Payloads ==
  {Obj(<<k>>, <<v>>) : k \in FieldKeys, v \in FieldValues}
    \cup {Obj(<<"id", k>>, <<Lit("p9"), v>>) : k \in FieldKeys, v \in FieldValues}
    \cup {Obj(<<"__id", k>>, <<Lit("n0"), v>>) : k \in FieldKeys, v \in FieldValues}

NoMutation == [op |-> "", shapeClass |-> "", id |-> "", given |-> Undef, result |-> Undef]

\* no QueryParser mutation entry point was called yet
NoEntry == [op |-> "", outcome |-> "", error |-> ""]

MutationIdle == payload = Undef /\ mutation = NoMutation /\ entry = NoEntry

\* new CreateQueryFactory(shapeClass, updateObjectOrFn), the argument the caller's object
CreateQueryFactory(shapeClass, updateObject) ==
  LET r == convertUpdateObject(Registry, updateObject, shapeClass, TRUE)
  IN /\ updateObject.tag = "obj"
     /\ payload' = r.arg
     /\ mutation' = [op |-> "create", shapeClass |-> shapeClass, id |-> "",
                     given |-> updateObject, result |-> r.out]
     /\ UNCHANGED entry
     /\ UNCHANGED <<registryVars, traceVars, selectVars, storageVars, utilVars>>

\* new UpdateQueryFactory(shapeClass, id, updateObjectOrFn), the argument the caller's object
UpdateQueryFactory(shapeClass, id, updateObject) ==
  LET r == convertUpdateObject(Registry, updateObject, shapeClass, FALSE)
  IN /\ updateObject.tag = "obj"
     /\ payload' = r.arg
     /\ mutation' = [op |-> "update", shapeClass |-> shapeClass, id |-> id,
                     given |-> updateObject, result |-> r.out]
     /\ UNCHANGED entry
     /\ UNCHANGED <<registryVars, traceVars, selectVars, storageVars, utilVars>>

(***************************************************************************)
(* The query value graph.  nodes is the heap of QueryBuilderObjects in     *)
(* creation order; a node refers to its subject and to its members (the    *)
(* queryShapes of a QueryShapeSet, the contents of a QueryPrimitiveSet) by *)
(* index.  A node is visible when a property read returned it to the       *)
(* query callback (or it is the root the callback was given).              *)
(***************************************************************************)
MaxReads == 3

QueryNode(kind, cls, property, subject, members) ==
  [kind |-> kind, cls |-> cls, property |-> property, subject |-> subject,
   members |-> members, visible |-> FALSE, wherePath |-> None, filter |-> FALSE]

\* the registered classes that are proper ancestors of c, nearest first
getSuperShapesClasses(R, c) ==
  SelectSeq(SubSeq(PrototypeChain(c), 2, Len(PrototypeChain(c))),
            LAMBDA d : \E k \in ShapeClasses : R.nodeShapeToShapeClass[k] = d)

getPropertyShapeByLabel(R, shapeClass, label) ==
  LET shapeChain == <<shapeClass>> \o getSuperShapesClasses(R, shapeClass)
      hits == SelectSeq(shapeChain,
                        LAMBDA d : FindByLabel(R.shape[d].propertyShapes, label) # None)
  IN IF Len(hits) = 0 THEN None ELSE FindByLabel(R.shape[hits[1]].propertyShapes, label)

\* the PropertyShape object a node's `property` refers to
PropertyById(R, id) ==
  LET owner == CHOOSE c \in ShapeClasses :
                 \E i \in 1..Len(R.shape[c].propertyShapes) : R.shape[c].propertyShapes[i].id = id
  IN R.shape[owner].propertyShapes[
       CHOOSE i \in 1..Len(R.shape[owner].propertyShapes) :
         R.shape[owner].propertyShapes[i].id = id]

\* what a property read produced: it threw, or it created the nodes `new` (to be appended to
\* the heap) and returned the node at index `value` (0 when it returned no query value)
ReadResult(thrown, new, value) == [thrown |-> thrown, new |-> new, value |-> value]

\* QueryBuilderObject.generatePathValue(property, subject); base is the size of the heap
generatePathValue(R, property, subject, base) ==
  LET singleValue == property.maxCount # None /\ The(property.maxCount) <= 1
      primitive == ReadResult(FALSE, <<QueryNode("prim", "", property.id, subject, <<>>)>>,
                              base + 1)
      primitiveSet ==
        ReadResult(FALSE,
                   <<QueryNode("prim", "", property.id, subject, <<>>),
                     QueryNode("primset", "", property.id, subject, <<base + 1>>)>>,
                   base + 2)
      shapeClass == getShapeClass(R, property.valueShape)
  IN IF property.datatype # "" /\ ~singleValue THEN primitiveSet
     ELSE IF property.datatype \in {"integer", "boolean", "dateTime", "date", "string"}
     THEN primitive
     ELSE IF property.valueShape # ""
     THEN IF shapeClass = "" THEN ReadResult(TRUE, <<>>, 0)
          ELSE IF singleValue
          THEN ReadResult(FALSE, <<QueryNode("shape", shapeClass, property.id, subject, <<>>)>>,
                          base + 1)
          ELSE ReadResult(FALSE,
                          <<QueryNode("shape", shapeClass, property.id, subject, <<>>),
                            QueryNode("set", "", property.id, subject, <<base + 1>>)>>,
                          base + 2)
     ELSE IF property.nodeKind \in {Some("Literal"), Some("BlankNodeOrLiteral")}
     THEN IF singleValue THEN primitive ELSE primitiveSet
     ELSE ReadResult(TRUE, <<>>, 0)

\* the get trap of proxifyQueryShape for a string key that QueryShape does not implement
ReadQueryShape(R, ns, n, key) ==
  LET propertyShape == getPropertyShapeByLabel(R, ns[n].cls, key)
  IN IF propertyShape = None THEN ReadResult(FALSE, <<>>, 0)
     ELSE generatePathValue(R, The(propertyShape), n, Len(ns))

\* the string keys for which `key in queryShape` holds in the models' reads: fields and the
\* id accessor, and methods of QueryShape and QueryBuilderObject
QueryShapeFields == {"property", "subject", "wherePath", "originalValue", "proxy", "id"}

QueryShapeMethods ==
  {"as", "equals", "select", "selectAll", "getOriginalValue", "getPropertyStep",
   "preloadFor", "limit", "getPropertyPath"}

\* the get trap of proxifyQueryShape for a string key: a member of the QueryShape when it
\* has one of that name (member is TRUE; value is the node a subject field holds, else 0),
\* otherwise the read of a registered property
proxifyQueryShape(R, ns, n, key) ==
  IF key \in QueryShapeFields \cup QueryShapeMethods
  THEN [thrown |-> FALSE, new |-> <<>>,
        value |-> IF key = "subject" THEN ns[n].subject ELSE 0, member |-> TRUE]
  ELSE LET q == ReadQueryShape(R, ns, n, key)
       IN [thrown |-> q.thrown, new |-> q.new, value |-> q.value, member |-> FALSE]

\* getLeastSpecificShape() of a set's original value: a class among the members' classes
\* that no other member's class is an ancestor of ("" for an empty set)
getLeastSpecificShape(ns, n) ==
  LET classes == {ns[ns[n].members[i]].cls : i \in 1..Len(ns[n].members)}
      least == {c \in classes : \A d \in classes : ~hasSuperClass(c, d)}
  IN IF least = {} THEN "" ELSE CHOOSE c \in least : TRUE

RECURSIVE callAccessorOnMembers(_, _, _, _, _, _)
\* the queryShapes.forEach of callPropertyShapeAccessor: members i.. of set n are still to
\* read, result is the index of the set under construction, ns the heap so far
callAccessorOnMembers(R, ns, n, i, propertyShape, result) ==
  IF i > Len(ns[n].members) THEN ReadResult(FALSE, ns, result)
  ELSE
    LET r == ReadQueryShape(R, ns, ns[n].members[i], propertyShape.label)
        expectSingleValues == propertyShape.maxCount # None /\ The(propertyShape.maxCount) <= 1
        ns1 == ns \o r.new
    IN IF r.thrown THEN r
       ELSE IF r.value = 0
       THEN callAccessorOnMembers(R, ns, n, i + 1, propertyShape, result)
       ELSE IF expectSingleValues
       THEN callAccessorOnMembers(R, [ns1 EXCEPT ![result].members = Append(@, r.value)],
                                  n, i + 1, propertyShape, result)
       ELSE IF ns1[result].kind = "primset" \/ ns1[r.value].kind # "set"
       THEN ReadResult(TRUE, <<>>, 0)
       ELSE callAccessorOnMembers(R,
                                  [ns1 EXCEPT ![result].members = @ \o ns1[r.value].members],
                                  n, i + 1, propertyShape, result)

\* QueryShapeSet.callPropertyShapeAccessor(propertyShape) on set n: the whole heap after it
callPropertyShapeAccessor(R, ns, n, propertyShape) ==
  LET result == QueryNode(IF propertyShape.nodeKind = Some("Literal") THEN "primset" ELSE "set",
                          "", propertyShape.id, n, <<>>)
  IN callAccessorOnMembers(R, Append(ns, result), n, 1, propertyShape, Len(ns) + 1)

\* the get trap of proxifyShapeSet for a string key that QueryShapeSet does not implement:
\* the whole heap after it
ReadQueryShapeSet(R, ns, n, key) ==
  LET leastSpecificShape == getLeastSpecificShape(ns, n)
      valueShape ==
        IF leastSpecificShape # "" THEN StaticShapeOwner(R, leastSpecificShape)
        ELSE IF ns[n].property # ""
        THEN StaticShapeOwner(R, getShapeClass(R, PropertyById(R, ns[n].property).valueShape))
        ELSE ""
      propertyShape ==
        IF valueShape = "" THEN None
        ELSE FindByLabel(getPropertyShapes(R, valueShape, TRUE), key)
  IN IF propertyShape = None THEN ReadResult(FALSE, ns, 0)
     ELSE callPropertyShapeAccessor(R, ns, n, The(propertyShape))

\* path.push(step): the step lands behind those of the values read after it
Push(path, step) == Append(path, step)

\* path.unshift(step)
Unshift(path, step) == <<step>> \o path

RECURSIVE getPropertyPath(_, _, _)
\* QueryBuilderObject.getPropertyPath(currentPath) and its QueryPrimitiveSet override, on
\* node n: the properties of the steps, <<"throws">> when the override throws
getPropertyPath(ns, n, currentPath) ==
  IF ns[n].kind = "primset"
  THEN IF Len(ns[n].members) > 1 THEN <<"throws">>
       ELSE IF Len(ns[n].members) = 1 THEN getPropertyPath(ns, ns[n].members[1], <<>>)
       ELSE getPropertyPath(ns, ns[n].subject, <<>>)
  ELSE LET path == IF ns[n].property # "" THEN Unshift(currentPath, ns[n].property)
                   ELSE currentPath
       IN IF ns[n].subject # 0 THEN getPropertyPath(ns, ns[n].subject, path) ELSE path

TraceIdle ==
  /\ nodes = <<>> /\ reads = <<>> /\ traceError = FALSE
  /\ whereStack = <<>> /\ evaluations = <<>>

Labels == {"name", "nickNames", "bestFriend", "friends", "pets", "knows", "department"}

NumVisible == Cardinality({n \in 1..Len(nodes) : nodes[n].visible})

\* the query callback reads value[key] on a value it holds
ReadProperty(n, key) ==
  /\ n \in 1..Len(nodes)
  /\ nodes[n].visible
  /\ nodes[n].kind \in {"shape", "set"}
  /\ NumVisible <= MaxReads
  /\ LET r == IF nodes[n].kind = "shape"
              THEN LET q == proxifyQueryShape(Registry, nodes, n, key)
                   IN ReadResult(q.thrown, nodes \o q.new, IF q.member THEN 0 ELSE q.value)
              ELSE ReadQueryShapeSet(Registry, nodes, n, key)
     IN IF r.thrown \/ r.value = 0
        THEN /\ traceError' = r.thrown
             /\ UNCHANGED <<nodes, reads>>
        ELSE /\ traceError' = FALSE
             /\ nodes' = [r.new EXCEPT ![r.value].visible = TRUE]
             /\ reads' = [i \in 1..Len(r.new) |->
                            IF i = r.value
                            THEN Append(reads[n], nodes'[r.value].property)
                            ELSE IF i <= Len(reads) THEN reads[i] ELSE <<>>]
  /\ UNCHANGED <<whereStack, evaluations>>
  /\ UNCHANGED <<registryVars, mutationVars, selectVars, storageVars, utilVars>>

(***************************************************************************)
(* Filters: where() on a traced value, the Evaluation objects a filter     *)
(* callback builds with equals/and/or, and the where-path they compile to. *)
(* A where() call is two steps, split where it hands control to the        *)
(* callback: the call up to the callback's invocation, and the callback's  *)
(* return.  The argument of equals is a constant literal and is left out.  *)
(***************************************************************************)
MaxWheres == 2

MaxEvaluations == 2

MaxAndOr == 3

\* WhereEvaluationPath {path, method, args}
WhereEvaluationPath(path, method) ==
  [form |-> "evaluation", path |-> path, method |-> method, firstPath |-> <<>>,
   andOr |-> <<>>]

\* WhereAndOr {firstPath, andOr}
WhereAndOr(firstPath, andOr) ==
  [form |-> "andOr", path |-> <<>>, method |-> "", firstPath |-> <<firstPath>>,
   andOr |-> andOr]

\* QueryBuilderObject.getPropertyStep()
getPropertyStep(ns, n) == [property |-> ns[n].property, where |-> ns[n].wherePath]

RECURSIVE getPropertySteps(_, _, _)
\* QueryBuilderObject.getPropertyPath(currentPath) and its QueryPrimitiveSet override with
\* the steps themselves: the heap after the override's assignment of wherePath, the path,
\* and whether the override threw
getPropertySteps(ns, n, currentPath) ==
  IF ns[n].kind = "primset"
  THEN IF Len(ns[n].members) > 1 THEN [ns |-> ns, path |-> <<>>, thrown |-> TRUE]
       ELSE IF Len(ns[n].members) = 1
       THEN LET first == ns[n].members[1]
                ns1 == [ns EXCEPT ![ns[first].subject].wherePath =
                                      IF @ # None THEN @ ELSE ns[ns[n].subject].wherePath]
            IN getPropertySteps(ns1, first, <<>>)
       ELSE getPropertySteps(ns, ns[n].subject, <<>>)
  ELSE LET path == IF ns[n].property # "" \/ ns[n].wherePath # None
                   THEN Unshift(currentPath, getPropertyStep(ns, n))
                   ELSE currentPath
       IN IF ns[n].subject # 0 THEN getPropertySteps(ns, ns[n].subject, path)
          ELSE [ns |-> ns, path |-> path, thrown |-> FALSE]

\* new Evaluation(value, method, args); calls and passed are observations: the and()/or()
\* calls made on it, and whether it was handed to and()/or() or returned from a callback
Evaluation(value, method) ==
  [value |-> value, method |-> method, andOr |-> <<>>, calls |-> <<>>, passed |-> FALSE]

\* Evaluation.getWherePath()
getWherePath(ns, ev) ==
  LET p == getPropertySteps(ns, ev.value, <<>>)
      evalPath == WhereEvaluationPath(p.path, ev.method)
  IN [ns |-> p.ns, thrown |-> p.thrown,
      wherePath |-> IF Len(ev.andOr) > 0 THEN WhereAndOr(evalPath, ev.andOr)
                    ELSE evalPath]

\* the token is put in front of the earlier ones
unshiftAndOr(andOr, token) == <<token>> \o andOr

\* this._andOr.push({and: ...}) / this._andOr.push({or: ...})
pushAndOr(andOr, token) == Append(andOr, token)

\* the placeholder LinkedWhereQuery.getQueryShape() hands to the filter callback
FilterRoot(kind, cls) ==
  [QueryNode(kind, cls, "", 0, <<>>) EXCEPT !.visible = TRUE, !.filter = TRUE]

RECURSIVE RootOf(_, _)
\* the node the subject links of n end at
RootOf(ns, n) == IF ns[n].subject = 0 THEN n ELSE RootOf(ns, ns[n].subject)

\* QueryShapeSet.where(validation) and QueryPrimitive.where(validation) with a callback,
\* up to the invocation of the callback in SelectQueryFactory.init()
where(n) ==
  /\ n \in 1..Len(nodes)
  /\ nodes[n].visible
  /\ nodes[n].kind \in {"set", "prim"}
  /\ Cardinality({r \in 1..Len(nodes) : nodes[r].filter}) < MaxWheres
  /\ LET leastSpecificShape == getLeastSpecificShape(nodes, n)
         p == getPropertySteps(nodes, n, <<>>)
         throws == IF nodes[n].kind = "set"
                   THEN \/ \E i \in 1..Len(p.path) : p.path[i].where # None
                        \/ leastSpecificShape = ""
                   ELSE FALSE
         root == IF nodes[n].kind = "set" THEN FilterRoot("shape", leastSpecificShape)
                 ELSE FilterRoot("prim", "")
     IN IF throws
        THEN /\ traceError' = TRUE
             /\ UNCHANGED <<nodes, reads, whereStack>>
        ELSE /\ traceError' = FALSE
             /\ nodes' = Append(nodes, root)
             /\ reads' = Append(reads, <<>>)
             /\ whereStack' = Append(whereStack, [receiver |-> n, root |-> Len(nodes) + 1])
  /\ UNCHANGED evaluations
  /\ UNCHANGED <<registryVars, mutationVars, selectVars, storageVars, utilVars>>

\* the filter callback returns Evaluation e: LinkedWhereQuery.getWherePath() and the
\* assignment of this.wherePath that ends where()
whereReturn(e) ==
  /\ whereStack # <<>>
  /\ e \in 1..Len(evaluations)
  /\ LET call == whereStack[Len(whereStack)]
         w == getWherePath(nodes, evaluations[e])
     IN /\ traceError' = w.thrown
        /\ nodes' = IF w.thrown THEN w.ns
                    ELSE [w.ns EXCEPT ![call.receiver].wherePath = Some(w.wherePath)]
        /\ evaluations' = [evaluations EXCEPT ![e].passed = TRUE]
        /\ attached' = IF w.thrown THEN attached
                       ELSE attached \cup {<<call.receiver, Len(nodes)>>}
  /\ whereStack' = SubSeq(whereStack, 1, Len(whereStack) - 1)
  /\ UNCHANGED reads
  /\ UNCHANGED <<registryVars, mutationVars, selectVars, storageVars, exceptAttached>>

\* QueryPrimitive.equals, QueryPrimitiveSet.equals and QueryShape.equals
equals(n) ==
  /\ n \in 1..Len(nodes)
  /\ nodes[n].visible
  /\ nodes[n].kind \in {"prim", "primset", "shape"}
  /\ Len(evaluations) < MaxEvaluations
  /\ evaluations' = Append(evaluations, Evaluation(n, "equals"))
  /\ traceError' = FALSE
  /\ UNCHANGED <<nodes, reads, whereStack>>
  /\ UNCHANGED <<registryVars, mutationVars, selectVars, storageVars, utilVars>>

\* Evaluation.and(subQuery) and Evaluation.or(subQuery) with another Evaluation as
\* subQuery, on an evaluation that was not handed over yet
andOr(e, key, subQuery) ==
  /\ e \in 1..Len(evaluations)
  /\ subQuery \in 1..Len(evaluations) \ {e}
  /\ ~evaluations[e].passed
  /\ Len(evaluations[e].andOr) < MaxAndOr
  /\ LET w == getWherePath(nodes, evaluations[subQuery])
         token == [andOr |-> key, wherePath |-> w.wherePath]
     IN /\ traceError' = w.thrown
        /\ nodes' = w.ns
        /\ evaluations' =
             IF w.thrown THEN evaluations
             ELSE [evaluations EXCEPT
                     ![e] = [@ EXCEPT !.andOr = pushAndOr(@, token),
                                      !.calls = Append(@, token)],
                     ![subQuery] = [@ EXCEPT !.passed = TRUE]]
  /\ UNCHANGED <<reads, whereStack>>
  /\ UNCHANGED <<registryVars, mutationVars, selectVars, storageVars, utilVars>>

and(e, subQuery) == andOr(e, "and", subQuery)

or(e, subQuery) == andOr(e, "or", subQuery)

(***************************************************************************)
(* Shape.select and the SelectQueryFactory it constructs.  The query       *)
(* callback is a chain of property reads from the root; tasks are the      *)
(* callbacks the call left with the event loop.                            *)
(***************************************************************************)
\* the callbacks Shape.select is called with: value => value[k1][k2]...
BuildFns ==
  {<<"name">>, <<"friends">>, <<"bestFriend", "name">>, <<"friends", "name">>,
   <<"friends", "bestFriend">>, <<"pets", "bestFriend">>}

RECURSIVE traceChain(_, _, _, _, _)
\* the value the callback returns: the heap and the node that reading keys i.. from node n
\* ends at (node 0 when a read returned no query value)
traceChain(R, ns, n, chain, i) ==
  IF i > Len(chain) \/ n = 0 THEN [ns |-> ns, value |-> n]
  ELSE LET r == IF ns[n].kind = "shape"
                THEN LET q == ReadQueryShape(R, ns, n, chain[i])
                     IN ReadResult(q.thrown, ns \o q.new, q.value)
                ELSE IF ns[n].kind = "set" THEN ReadQueryShapeSet(R, ns, n, chain[i])
                ELSE ReadResult(FALSE, ns, 0)
       IN IF r.thrown THEN [ns |-> ns, value |-> 0]
          ELSE traceChain(R, r.new, r.value, chain, i + 1)

\* queryBuildFn(queryShape, this) in init(): the traced response, as the paths
\* getQueryPaths reads off it
queryBuildFn(R, shapeClass, chain) ==
  LET t == traceChain(R, <<QueryNode("shape", shapeClass, "", 0, <<>>)>>, 1, chain, 1)
  IN IF t.value = 0 THEN <<>> ELSE <<getPropertyPath(t.ns, t.value, <<>>)>>

NoFactory ==
  [shape |-> "", queryBuildFn |-> <<>>, traceResponse |-> None, complete |-> FALSE,
   inits |-> 0, wherePath |-> None, limit |-> None, sortResponse |-> None,
   sortDirection |-> "", singleResult |-> FALSE]

\* SelectQueryFactory.init()
init(R, f) ==
  [f EXCEPT !.traceResponse = Some(queryBuildFn(R, f.shape, f.queryBuildFn)),
            !.complete = TRUE,
            !.inits = @ + 1]

\* getQueryPaths(response = this.traceResponse)
getQueryPaths(f) == IF f.traceResponse = None THEN <<>> ELSE The(f.traceResponse)

\* getSortByPath()
getSortByPath(f) ==
  IF f.sortResponse = None THEN None
  ELSE Some([paths |-> The(f.sortResponse), direction |-> f.sortDirection])

\* getQueryObject(), with whether the factory's init had run when it was called; the
\* factory of Shape.select(selectFn) has no subject
getQueryObject(f) ==
  [type |-> "select", shape |-> f.shape, select |-> getQueryPaths(f),
   built |-> f.complete, limit |-> f.limit, sortBy |-> getSortByPath(f),
   singleResult |-> f.singleResult, where |-> f.wherePath]

SelectIdle ==
  /\ readyState = "none"
  /\ factory = NoFactory
  /\ tasks = {}
  /\ received = <<>>

\* Shape.select(selectFn) on class c
Select(c, selectFn) ==
  /\ factory = NoFactory
  /\ LET f == [NoFactory EXCEPT !.shape = c, !.queryBuildFn = selectFn]
     IN IF readyState # "loading"
        THEN /\ factory' = init(Registry, f)
             /\ tasks' = {"nextTick"}
        ELSE /\ factory' = f
             /\ tasks' = {"DOMContentLoaded", "timeout", "nextTick"}
  /\ UNCHANGED <<readyState, received>>
  /\ UNCHANGED <<registryVars, mutationVars, traceVars, storageVars, utilVars>>

\* the nextTick callback of Shape.select: queryParser.selectQuery(query), which serializes
\* the query and hands it to the store
NextTick ==
  /\ "nextTick" \in tasks
  /\ tasks' = tasks \ {"nextTick"}
  /\ received' = Append(received, getQueryObject(factory))
  /\ UNCHANGED <<readyState, factory>>
  /\ UNCHANGED <<registryVars, mutationVars, traceVars, storageVars, utilVars>>

\* the document finishes loading: the DOMContentLoaded listener of the constructor runs
DOMContentLoaded ==
  /\ readyState = "loading"
  /\ readyState' = "interactive"
  /\ IF "DOMContentLoaded" \in tasks
     THEN /\ factory' = init(Registry, factory)
          /\ tasks' = tasks \ {"DOMContentLoaded"}
     ELSE UNCHANGED <<factory, tasks>>
  /\ UNCHANGED received
  /\ UNCHANGED <<registryVars, mutationVars, traceVars, storageVars, utilVars>>

\* the setTimeout(3500) callback of the constructor; the nextTick callback is due before it
Timeout ==
  /\ "timeout" \in tasks
  /\ "nextTick" \notin tasks
  /\ tasks' = tasks \ {"timeout"}
  /\ factory' = IF ~factory.complete THEN init(Registry, factory) ELSE factory
  /\ UNCHANGED <<readyState, received>>
  /\ UNCHANGED <<registryVars, mutationVars, traceVars, storageVars, utilVars>>

(***************************************************************************)
(* The methods patchResultPromise puts on the promise Shape.select         *)
(* returns.  A filter callback is v => v[label].equals(x), a sort callback *)
(* v => v[label]; both are named by their label.                           *)
(***************************************************************************)
MaxChained == 3

\* processWhereClause(validation, shape) for a callback: new LinkedWhereQuery(shape,
\* validation).getWherePath().  LinkedWhereQuery runs the SelectQueryFactory constructor,
\* which leaves traceResponse undefined while the document is loading (the listener and
\* the timer it registers then only initialise that discarded object).
processWhereClause(R, whereFn, shapeClass, state) ==
  CHOOSE out \in
    {IF state = "loading" \/ traced = <<>>
     THEN [thrown |-> TRUE, wherePath |-> WhereEvaluationPath(<<>>, "")]
     ELSE [thrown |-> FALSE, wherePath |-> WhereEvaluationPath(traced[1], "equals")] :
       traced \in {queryBuildFn(R, shapeClass, <<whereFn>>)}} : TRUE

ChainedCall(method, arg, direction, thrown) ==
  [method |-> method, arg |-> arg, direction |-> direction, thrown |-> thrown,
   sync |-> "nextTick" \in tasks]

\* a call on the promise; the store has received at most the query of this Shape.select
Chain(f, call) ==
  /\ factory # NoFactory
  /\ Len(chained) < MaxChained
  /\ factory' = f
  /\ chained' = Append(chained, call)
  /\ UNCHANGED <<readyState, tasks, received>>
  /\ UNCHANGED exceptChained
  /\ UNCHANGED <<registryVars, mutationVars, traceVars, storageVars>>

\* p.where(validation)
promiseWhere(whereFn) ==
  /\ factory # NoFactory
  /\ \E w \in {processWhereClause(Registry, whereFn, factory.shape, readyState)} :
       Chain(IF w.thrown THEN factory ELSE [factory EXCEPT !.wherePath = Some(w.wherePath)],
             ChainedCall("where", whereFn, "", w.thrown))

\* p.limit(lim)
promiseLimit(lim) ==
  Chain([factory EXCEPT !.limit = Some(lim)], ChainedCall("limit", lim, "", FALSE))

\* p.sortBy(sortFn, direction): SelectQueryFactory.sortBy traces sortFn at once
promiseSortBy(sortFn, direction) ==
  Chain([factory EXCEPT !.sortResponse = Some(queryBuildFn(Registry, factory.shape,
                                                           <<sortFn>>)),
                        !.sortDirection = direction],
        ChainedCall("sortBy", sortFn, direction, FALSE))

\* p.one()
promiseOne ==
  Chain([factory EXCEPT !.limit = Some(1), !.singleResult = TRUE],
        ChainedCall("one", "", "", FALSE))

(***************************************************************************)
(* LinkedStorage: the default store, the per-class stores and the four     *)
(* query entry points.                                                     *)
(***************************************************************************)
\* the store objects of the program
Stores == {"fullStore", "readStore", "writeStore"}

\* the members each store object has
StoreMembers(store) ==
  CASE store = "fullStore"  -> {"init", "selectQuery", "updateQuery", "createQuery", "deleteQuery"}
    [] store = "readStore"  -> {"selectQuery"}
    [] store = "writeStore" -> {"updateQuery", "createQuery", "deleteQuery"}
    [] OTHER                -> {}

QueryMethods == {"selectQuery", "updateQuery", "createQuery", "deleteQuery"}

\* the shape field of the query objects handed to LinkedStorage
QueryRef(kind, ref) == [kind |-> kind, ref |-> ref]
QueryShapeRefs ==
  {QueryRef("null", ""), QueryRef("object", "")}
    \cup {QueryRef("class", c) : c \in ShapeClasses}
    \cup {QueryRef("nodeShape", getNodeShapeUri(packageName, c)) : c \in ShapeClasses}

NoCall == [op |-> "", shape |-> QueryRef("null", ""), store |-> "", outcome |-> ""]

StorageIdle ==
  /\ defaultStore = ""
  /\ shapeToStore = [c \in ShapeClasses |-> ""]
  /\ lastCall = NoCall
  /\ storeCalls = {}

\* a lookup that consults the map for the class itself only
getStoreForShapeClassFirstOnly(map, default, current) ==
  IF current \notin ShapeClasses THEN default
  ELSE IF map[current] # "" THEN map[current]
  ELSE default

RECURSIVE getStoreForShapeClass(_, _, _)
\* LinkedStorage.getStoreForShapeClass(shapeClass), "" standing for null and undefined
getStoreForShapeClass(map, default, current) ==
  IF current \notin ShapeClasses THEN default
  ELSE IF map[current] # "" THEN map[current]
  ELSE IF current = "Shape" THEN default
  ELSE getStoreForShapeClass(map, default, getPrototypeOf[current])

resolveStoreForQueryShape(R, map, default, queryShape) ==
  CASE queryShape.kind = "null"      -> default
    [] queryShape.kind = "class"     -> getStoreForShapeClass(map, default, queryShape.ref)
    [] queryShape.kind = "nodeShape" ->
         getStoreForShapeClass(map, default, getShapeClass(R, queryShape.ref))
    [] OTHER                         -> default

\* the guards the entry points never skip: every call goes on to the store
AlwaysCallable(store, method) == TRUE

\* store?.selectQuery and its like: the store is there and has the method
Callable(store, method) == store # "" /\ method \in StoreMembers(store)

\* LinkedStorage.setDefaultStore(store)
setDefaultStore(store) ==
  /\ defaultStore' = store
  /\ storeCalls' = IF "init" \in StoreMembers(store) THEN {<<store, "init">>} ELSE {}
  /\ lastCall' = [NoCall EXCEPT !.op = "setDefaultStore", !.store = store]
  /\ UNCHANGED shapeToStore
  /\ UNCHANGED <<registryVars, mutationVars, traceVars, selectVars, utilVars>>

\* LinkedStorage.setStoreForShapes(store, shapeClass)
setStoreForShapes(store, shapeClass) ==
  /\ shapeToStore' = [shapeToStore EXCEPT ![shapeClass] = store]
  /\ storeCalls' = {}
  /\ lastCall' = [NoCall EXCEPT !.op = "setStoreForShapes", !.store = store,
                                !.shape = QueryRef("class", shapeClass)]
  /\ UNCHANGED defaultStore
  /\ UNCHANGED <<registryVars, mutationVars, traceVars, selectVars, utilVars>>

\* LinkedStorage.selectQuery / updateQuery / createQuery / deleteQuery (query), `method` the
\* store method the entry point forwards to
StorageQuery(method, queryShape) ==
  LET store == resolveStoreForQueryShape(Registry, shapeToStore, defaultStore, queryShape)
  IN /\ IF ~Callable(store, method)
        THEN /\ lastCall' = [op |-> method, shape |-> queryShape, store |-> store,
                             outcome |-> "rejected"]
             /\ storeCalls' = {}
        ELSE IF store = "" \/ method \notin StoreMembers(store)
        THEN /\ lastCall' = [op |-> method, shape |-> queryShape, store |-> store,
                             outcome |-> "threw"]
             /\ storeCalls' = {}
        ELSE /\ lastCall' = [op |-> method, shape |-> queryShape, store |-> store,
                             outcome |-> "dispatched"]
             /\ storeCalls' = {<<store, method>>}
     /\ UNCHANGED <<defaultStore, shapeToStore>>
     /\ UNCHANGED <<registryVars, mutationVars, traceVars, selectVars, utilVars>>


(***************************************************************************)
(* QueryParser.updateQuery / createQuery / deleteQuery: the entry points    *)
(* behind Shape.update, Shape.create and Shape.delete.  Each constructs    *)
(* the mutation factory, takes its query object and hands it to            *)
(* LinkedStorage.  entry.outcome is how the call ended for its caller:     *)
(* "threw" (an exception left the entry point), "undefined" (it returned   *)
(* undefined), "rejected" or "dispatched" (it returned LinkedStorage's     *)
(* promise).                                                               *)
(***************************************************************************)
\* convertNodeReferenceOrString(o)
convertNodeReferenceOrString(o) ==
  IF o.tag = "lit" THEN Value("ref", "", o.lit, <<>>, <<>>)
  ELSE IF isNodeReference(o) THEN convertNodeReference(o)
  ELSE Thrown("Invalid node reference")

RECURSIVE convertNodeReferenceItems(_, _, _)
\* input.map(convertNodeReferenceOrString), stopped by the first item that throws
convertNodeReferenceItems(items, i, outs) ==
  IF i > Len(items) THEN Arr(outs)
  ELSE LET r == convertNodeReferenceOrString(items[i])
       IN IF r.tag = "error" THEN r
          ELSE convertNodeReferenceItems(items, i + 1, Append(outs, r))

\* convertNodeReferences(input)
convertNodeReferences(input) ==
  IF input.tag = "arr" THEN convertNodeReferenceItems(input.vals, 1, <<>>)
  ELSE LET r == convertNodeReferenceOrString(input)
       IN IF r.tag = "error" THEN r ELSE Arr(<<r>>)

\* the ids Shape.delete is called with
DeleteIds ==
  {Lit("p1"), Obj(<<"id">>, <<Lit("p1")>>), Obj(<<"name">>, <<Lit("a")>>), Null,
   Arr(<<>>), Arr(<<Lit("p1"), Obj(<<"id">>, <<Lit("p2")>>)>>),
   Arr(<<Lit("p1"), Obj(<<"name">>, <<Lit("a")>>)>>)}

\* LinkedStorage.<method>(query) as the entry points use it: the store it resolves and
\* whether the store's method is invoked
LinkedStorageQuery(R, map, default, method, queryShape) ==
  LET store == resolveStoreForQueryShape(R, map, default, queryShape)
  IN [store |-> store,
      outcome |-> IF ~Callable(store, method) THEN "rejected"
                  ELSE IF store = "" \/ method \notin StoreMembers(store) THEN "threw"
                  ELSE "dispatched"]

\* the query object's shape field: this.shapeClass.shape
FactoryQueryShape(R, shapeClass) ==
  IF StaticShape(R, shapeClass) = NoShape THEN QueryRef("null", "")
  ELSE QueryRef("nodeShape", StaticShape(R, shapeClass).id)

\* the tail of an entry point: the factory was constructed with `result`; when that is an
\* error, `caught` tells whether the entry point catches it
FinishEntry(op, method, shapeClass, result, caught) ==
  IF result.tag = "error"
  THEN /\ entry' = [op |-> op, outcome |-> IF caught THEN "undefined" ELSE "threw",
                    error |-> result.lit]
       /\ storeCalls' = {}
       /\ UNCHANGED lastCall
  ELSE LET q == FactoryQueryShape(Registry, shapeClass)
           d == LinkedStorageQuery(Registry, shapeToStore, defaultStore, method, q)
       IN /\ entry' = [op |-> op, outcome |-> d.outcome, error |-> ""]
          /\ lastCall' = [op |-> method, shape |-> q, store |-> d.store,
                          outcome |-> d.outcome]
          /\ storeCalls' = IF d.outcome = "dispatched" THEN {<<d.store, method>>} ELSE {}

\* QueryParser.updateQuery(id, updateObjectOrFn, shapeClass)
updateQuery(id, updateObject, shapeClass) ==
  LET r == convertUpdateObject(Registry, updateObject, shapeClass, FALSE)
  IN /\ updateObject.tag = "obj"
     /\ payload' = r.arg
     /\ mutation' = [op |-> "update", shapeClass |-> shapeClass, id |-> id,
                     given |-> updateObject, result |-> r.out]
     /\ FinishEntry("update", "updateQuery", shapeClass, r.out, FALSE)
     /\ UNCHANGED <<defaultStore, shapeToStore>>
     /\ UNCHANGED <<registryVars, traceVars, selectVars, utilVars>>

\* QueryParser.createQuery(updateObjectOrFn, shapeClass)
createQuery(updateObject, shapeClass) ==
  LET r == convertUpdateObject(Registry, updateObject, shapeClass, TRUE)
  IN /\ updateObject.tag = "obj"
     /\ payload' = r.arg
     /\ mutation' = [op |-> "create", shapeClass |-> shapeClass, id |-> "",
                     given |-> updateObject, result |-> r.out]
     /\ FinishEntry("create", "createQuery", shapeClass, r.out, TRUE)
     /\ UNCHANGED <<defaultStore, shapeToStore>>
     /\ UNCHANGED <<registryVars, traceVars, selectVars, utilVars>>

\* QueryParser.deleteQuery(id, shapeClass)
deleteQuery(ids, shapeClass) ==
  LET r == convertNodeReferences(ids)
  IN /\ mutation' = [op |-> "delete", shapeClass |-> shapeClass, id |-> "",
                     given |-> ids, result |-> r]
     /\ FinishEntry("delete", "deleteQuery", shapeClass, r, FALSE)
     /\ UNCHANGED payload
     /\ UNCHANGED <<defaultStore, shapeToStore>>
     /\ UNCHANGED <<registryVars, traceVars, selectVars, utilVars>>

(***************************************************************************)
(* Context values (queries/QueryContext.ts): a process-wide map from a     *)
(* name to a query shape.  A value handed to setQueryContext is one of:    *)
(* null, undefined, a plain object (with or without a string id), a Shape  *)
(* instance or a QueryShape; `id` is what reading value.id gives when it   *)
(* is a string, `cls` the class of the Shape (wrapped, for a QueryShape).  *)
(***************************************************************************)
ContextNames == {"user", "ctx"}
ContextIds == {"ctx-1", "ctx-2"}
ShapeTypes == {"Person", "Employee"}

ContextValue(kind, id, cls) == [kind |-> kind, id |-> id, cls |-> cls]

\* the values a caller can hand to setQueryContext
ContextValues ==
  {ContextValue("null", None, ""), ContextValue("undefined", None, ""),
   ContextValue("object", None, "")}
  \cup {ContextValue("object", Some(i), "") : i \in ContextIds}
  \cup {ContextValue(k, None, "Person") : k \in {"shape", "queryShape"}}
  \cup {ContextValue(k, Some(i), "Person") : k \in {"shape", "queryShape"}, i \in ContextIds}

\* `value &&`: null and undefined are falsy, every object is truthy
TruthyContext(value) == value.kind \notin {"null", "undefined"}

NoSet == [name |-> "", value |-> ContextValue("undefined", None, ""), shapeType |-> ""]

ContextIdle ==
  /\ queryContext = [name \in ContextNames |-> None]
  /\ lastSet = NoSet

\* getQueryContext(name)
getQueryContext(context, name) ==
  IF context[name] = None THEN ContextValue("null", None, "") ELSE The(context[name])

\* setQueryContext(name, value, shapeType) with shapeType "" when it is not given: the
\* map afterwards
setQueryContextMap(context, name, value, shapeType) ==
  LET isResult == TruthyContext(value) /\ value.id # None
      converted == IF isResult
                   THEN ContextValue("queryShape", value.id, shapeType)
                   ELSE value
  IN IF isResult /\ shapeType = "" THEN context
     ELSE IF converted.kind = "shape"
     THEN [context EXCEPT ![name] = Some(ContextValue("queryShape", converted.id,
                                                      converted.cls))]
     ELSE IF TruthyContext(converted) /\ converted.kind # "queryShape" THEN context
     ELSE [context EXCEPT ![name] = Some(converted)]

setQueryContext(name, value, shapeType) ==
  /\ queryContext' = setQueryContextMap(queryContext, name, value, shapeType)
  /\ lastSet' = [name |-> name, value |-> value, shapeType |-> shapeType]
  /\ UNCHANGED exceptContext
  /\ UNCHANGED <<registryVars, mutationVars, traceVars, selectVars, storageVars>>

(***************************************************************************)
(* SelectQueryFactory.isValidResult: does a result hold the keys the       *)
(* query's select description asks for.  A select description is a list of *)
(* paths or a custom object (key -> path); a path is a list of steps; a    *)
(* step is a property step, a custom object or a list of sub-paths.        *)
(***************************************************************************)
PropertyQueryStep(label) ==
  [kind |-> "property", label |-> label, keys |-> <<>>, paths |-> <<>>]
CustomQueryObject(keys, paths) ==
  [kind |-> "object", label |-> "", keys |-> keys, paths |-> paths]
SubQueryPaths(paths) ==
  [kind |-> "paths", label |-> "", keys |-> <<>>, paths |-> paths]

\* qResult.hasOwnProperty(key), for the keys a select description names
hasOwnProperty(qResult, key) == qResult.tag = "obj" /\ HasKey(qResult, key)

\* the custom object after each of its paths went through path.splice(1) in
\* isValidQueryPathResult: only the first step of each path is left in it
Spliced(step) ==
  [step EXCEPT !.paths = [i \in 1..Len(step.paths) |-> <<step.paths[i][1]>>]]

RECURSIVE isValidQueryStepResult(_, _, _, _)
RECURSIVE isValidCustomObjectResult(_, _)

\* isValidQueryPathResult(qResult, path, nameOverwrite) for a path that is an array ("" is
\* no nameOverwrite)
isValidQueryPathResult(qResult, path, nameOverwrite) ==
  isValidQueryStepResult(qResult, path[1], Tail(path), nameOverwrite)

isValidQueryStepResult(qResult, step, restPath, nameOverwrite) ==
  IF ~Truthy(qResult) THEN FALSE
  ELSE IF step.kind = "property"
  THEN LET accessKey == IF nameOverwrite # "" THEN nameOverwrite ELSE step.label
       IN IF ~hasOwnProperty(qResult, accessKey) THEN FALSE
          ELSE IF Len(restPath) > 0
          THEN isValidQueryStepResult(Get(qResult, accessKey), restPath[1],
                                      Tail(restPath), "")
          ELSE TRUE
  ELSE IF step.kind = "paths"
  THEN \A i \in 1..Len(step.paths) : isValidQueryPathResult(qResult, step.paths[i], "")
  ELSE IF qResult.tag = "arr"
  \* every() stops at the first element that fails; an element that passed has left every
  \* path of the step spliced for the elements after it
  THEN \A i \in 1..Len(qResult.vals) :
         isValidQueryStepResult(qResult.vals[i], IF i = 1 THEN step ELSE Spliced(step),
                                <<>>, "")
  ELSE isValidCustomObjectResult(qResult, step)

isValidCustomObjectResult(qResult, step) ==
  \A i \in 1..Len(step.keys) :
    /\ hasOwnProperty(qResult, step.keys[i])
    /\ isValidQueryPathResult(qResult, step.paths[i], step.keys[i])

\* isValidQueryPathsResult(qResult, select)
isValidQueryPathsResult(qResult, select) ==
  \A i \in 1..Len(select.paths) : isValidQueryPathResult(qResult, select.paths[i], "")

\* isValidResult(qResult), with select the select of this.getQueryObject()
isValidResult(qResult, select) ==
  IF select.kind = "paths" THEN isValidQueryPathsResult(qResult, select)
  ELSE isValidCustomObjectResult(qResult, select)

NoValidation == [select |-> SubQueryPaths(<<>>), qResult |-> Undef, outcome |-> ""]

ValidationIdle == validation = NoValidation

\* factory.isValidResult(qResult)
CallIsValidResult ==
  /\ validation.outcome = ""
  /\ validation' = [validation EXCEPT !.outcome =
                      IF isValidResult(validation.qResult, validation.select)
                      THEN "true" ELSE "false"]
  /\ UNCHANGED exceptValidation
  /\ UNCHANGED <<registryVars, mutationVars, traceVars, selectVars, storageVars>>

ChainIdle == chained = <<>>

\* no property decorator has run under observation
DeclaredIdle == decorated = {}

\* no where() has returned
AttachedIdle == attached = {}

(***************************************************************************)
(* utils/cached.ts: results kept for a time box.  A function is a name; it *)
(* returns a value that tells which function made it from which arguments, *)
(* or throws.  A number of milliseconds is finite, Infinity or NaN.        *)
(***************************************************************************)
MaxNow == 2

Ms(n) == [kind |-> "fin", n |-> n]
Infinity == [kind |-> "inf", n |-> 0]
NaN == [kind |-> "nan", n |-> 0]

\* a + b for a finite a and b a number or undefined (None)
Plus(a, b) ==
  IF b = None THEN NaN
  ELSE IF The(b).kind = "fin" THEN Ms(a + The(b).n) ELSE The(b)

\* a < b for b finite: NaN compares false with everything
LessThan(a, b) == a.kind = "fin" /\ a.n < b

\* the functions handed to cached(): f and g return, h throws
Fns == {"f", "g", "h"}
Throws(fn) == fn = "h"

\* arguments: a number, a string, an object with an id, undefined
Arg(kind, n, str) == [kind |-> kind, n |-> n, str |-> str]
ArgValues == {Arg("num", 1, ""), Arg("str", 0, "1"), Arg("obj", 0, "a")}
ArgLists == {<<a>> : a \in ArgValues}

\* what fn makes of args (the error it throws when it throws)
ResultOf(fn, args) == [fn |-> fn, args |-> args]

\* the args.map callback: a Shape or an object with an id gives its id, anything else
\* a?.toString(); a string, or null for undefined
ArgKey(a) ==
  CASE a.kind \in {"shape", "obj"} -> Some(a.str)
    [] a.kind = "num" -> Some(ToString(a.n))
    [] a.kind = "str" -> Some(a.str)
    [] OTHER -> None

\* JSON.stringify(args) after the map: one key per sequence of strings and nulls
CacheKey(args) == [i \in 1..Len(args) |-> ArgKey(args[i])]

TimeCacheKeys == {CacheKey(args) : args \in ArgLists}

NoCached == [called |-> FALSE, fn |-> "", args |-> <<>>, cacheTimeMs |-> None,
             thrown |-> FALSE, value |-> None]

CachedIdle == timeCache = [k \in TimeCacheKeys |-> None] /\ now = 0 /\ lastCached = NoCached

\* cached(fn, args, cacheTimeMs, alsoCacheErrors); cacheTimeMs None when it is omitted
cached(fn, args, cacheTimeMs, alsoCacheErrors) ==
  LET key == CacheKey(args)
      found == timeCache[key]
      \* the entry is deleted when its timeout is before now
      cache == IF found # None /\ LessThan(The(found).timeout, now) THEN None ELSE found
      throws == IF cacheTimeMs = Some(Ms(0)) THEN Throws(fn)
                ELSE cache = None /\ Throws(fn) /\ ~alsoCacheErrors
      set == [timeout |-> Plus(now, cacheTimeMs), value |-> ResultOf(fn, args)]
      after == IF cacheTimeMs = Some(Ms(0)) THEN timeCache
               ELSE IF cache # None THEN timeCache
               ELSE IF throws THEN [timeCache EXCEPT ![key] = None]
               ELSE [timeCache EXCEPT ![key] = Some(set)]
  IN /\ timeCache' = after
     /\ lastCached' = [called |-> TRUE, fn |-> fn, args |-> args, cacheTimeMs |-> cacheTimeMs,
                       thrown |-> throws,
                       value |-> IF throws THEN None
                                 ELSE IF cacheTimeMs = Some(Ms(0)) THEN Some(ResultOf(fn, args))
                                 ELSE Some(The(after[key]).value)]
     /\ UNCHANGED now
     /\ UNCHANGED <<registryVars, mutationVars, traceVars, selectVars, storageVars,
                    exceptCached>>

\* time passes between two calls
Tick ==
  /\ now < MaxNow
  /\ now' = now + 1
  /\ UNCHANGED <<timeCache, lastCached>>
  /\ UNCHANGED <<registryVars, mutationVars, traceVars, selectVars, storageVars,
                 exceptCached>>

UtilIdle == ContextIdle /\ ValidationIdle /\ ChainIdle /\ DeclaredIdle /\ AttachedIdle
            /\ CachedIdle

InitRegistry == RegistryIdle /\ MutationIdle /\ TraceIdle /\ SelectIdle /\ UtilIdle /\ StorageIdle

NextRegistry ==
  \/ \E c \in UserClasses : BeginClass(c)
  \/ \E c \in UserClasses, decl \in Declarations : PropertyDecorator(c, decl)
  \/ \E c \in UserClasses : LinkedShape(c)
  \/ \E c \in UserClasses : LinkedShapeAgain(c)
  \/ \E c \in UserClasses : EndClass(c)
  \/ ResetCaches

SpecRegistry == InitRegistry /\ [][NextRegistry]_vars

(***************************************************************************)
(* Property overrides (a subclass declares a label an ancestor declares).  *)
(***************************************************************************)
\* the node kinds a SHACL node kind admits
KindSet(k) ==
  CASE k = "BlankNodeOrIRI"     -> {"BlankNode", "IRI"}
    [] k = "IRIOrLiteral"       -> {"IRI", "Literal"}
    [] k = "BlankNodeOrLiteral" -> {"BlankNode", "Literal"}
    [] OTHER                    -> {k}

\* the last registration declared a label that a proper ancestor's NodeShape declares
IsOverride == lastReg.cls # "" /\ lastReg.inherited # None

ExplicitMinCount(config) == IF config.required THEN Some(1) ELSE config.minCount

\* C2: a registration that overrides an ancestor's property with an explicit minCount or
\* maxCount goes through only when the minCount is not below the ancestor's and the
\* maxCount is not above the ancestor's.
C2_OverrideOnlyTightensCounts ==
  IsOverride =>
    LET inh == The(lastReg.inherited)
        min == ExplicitMinCount(lastReg.config)
        max == lastReg.config.maxCount
    IN /\ (min # None /\ inh.minCount # None) => The(min) >= The(inh.minCount)
       /\ (max # None /\ inh.maxCount # None) => The(max) <= The(inh.maxCount)

\* an override with a lower minCount than the ancestor's was registered
C2_LoweredMinCountRegistered ==
  /\ IsOverride
  /\ lastReg.stored # None
  /\ ExplicitMinCount(lastReg.config) # None
  /\ The(lastReg.inherited).minCount # None
  /\ The(ExplicitMinCount(lastReg.config)) < The(The(lastReg.inherited).minCount)

\* C3: a registration that overrides an ancestor's property with an explicit nodeKind goes
\* through only when the node kinds it admits are among those the ancestor's admits, and
\* the narrowed nodeKind is what the registered PropertyShape stores.
C3_OverrideOnlyNarrowsNodeKind ==
  (IsOverride /\ lastReg.config.nodeKind # NoNodeKind
     /\ The(lastReg.inherited).nodeKind # None) =>
    LET declared == normalizeNodeKind(lastReg.config.nodeKind, None)
    IN /\ declared # None
       /\ KindSet(The(declared)) \subseteq KindSet(The(The(lastReg.inherited).nodeKind))
       /\ The(lastReg.stored).nodeKind = declared

\* an override that narrows BlankNodeOrIRI to IRI was registered and stores IRI
C3_NarrowedNodeKindRegistered ==
  /\ IsOverride
  /\ The(lastReg.inherited).nodeKind = Some("BlankNodeOrIRI")
  /\ lastReg.config.nodeKind = OneNodeKind("IRI")
  /\ The(lastReg.stored).nodeKind = Some("IRI")

\* C4: in an override, minCount, maxCount and nodeKind each hold the ancestor's value when
\* the override's configuration omits the field and the supplied value when it gives one.
C4_OverrideInheritsOmittedFields ==
  IsOverride =>
    LET inh == The(lastReg.inherited)
        cfg == lastReg.config
        got == The(lastReg.stored)
    IN /\ got.minCount = IF ExplicitMinCount(cfg) = None THEN inh.minCount
                         ELSE ExplicitMinCount(cfg)
       /\ got.maxCount = IF cfg.maxCount = None THEN inh.maxCount ELSE cfg.maxCount
       /\ got.nodeKind = IF cfg.nodeKind = NoNodeKind THEN inh.nodeKind
                         ELSE normalizeNodeKind(cfg.nodeKind, None)

\* an override that omits minCount, maxCount and nodeKind was registered over an ancestor
\* that sets all three
C4_BareOverrideRegistered ==
  /\ IsOverride
  /\ ExplicitMinCount(lastReg.config) = None
  /\ lastReg.config.maxCount = None
  /\ lastReg.config.nodeKind = NoNodeKind
  /\ The(lastReg.inherited).minCount # None
  /\ The(lastReg.inherited).maxCount # None
  /\ The(lastReg.inherited).nodeKind # None

\* the caller holds a payload object; the factories are constructed with it
InitMutation ==
  /\ RegistryLoaded
  /\ payload \in Payloads
  /\ mutation = NoMutation
  /\ entry = NoEntry
  /\ TraceIdle /\ SelectIdle /\ UtilIdle /\ StorageIdle

NextMutation ==
  \/ \E c \in {"Person", "Employee"} : CreateQueryFactory(c, payload)
  \/ \E c \in {"Person", "Employee"} : UpdateQueryFactory(c, "p1", payload)

SpecMutation == InitMutation /\ [][NextMutation]_vars

(***************************************************************************)
(* Compiled mutations against the payloads they were compiled from.        *)
(***************************************************************************)
\* the factory constructor returned: the payload compiled to a node description
Compiled == mutation.op # "" /\ mutation.result.tag = "node"

\* the payload's keys that become fields, in order
GivenFields == DeleteKey(mutation.given, "__id")

FieldProperty(i) ==
  The(FindByLabel(getPropertyShapes(Registry, mutation.shapeClass, TRUE),
                  mutation.result.keys[i]))

\* the number of values a compiled field carries
NumValues(v) ==
  CASE v.tag = "arr" -> Len(v.vals) [] v.tag = "undef" -> 0 [] OTHER -> 1

\* <<given, compiled>> for every plain object that is the value of a field or an element of
\* a field's array
ObjectPairs ==
  LET g == GivenFields
      r == mutation.result
  IN {<<g.vals[i], r.vals[i]>> : i \in {n \in 1..Len(g.vals) : g.vals[n].tag = "obj"}}
       \cup UNION {{<<g.vals[i].vals[j], r.vals[i].vals[j]>> :
                      j \in {n \in 1..Len(g.vals[i].vals) : g.vals[i].vals[n].tag = "obj"}} :
                   i \in {n \in 1..Len(g.vals) : g.vals[n].tag = "arr"}}

\* a value's keys without the reserved keys __id and shape
PropertyKeys(o) == SelectSeq(o.keys, LAMBDA k : k \notin {"__id", "shape"})

\* C1: a create or update payload compiles only when the number of values it gives each
\* property it sets or unsets is within that property's minCount and maxCount.
C1_CompileChecksCardinality ==
  Compiled =>
    \A i \in 1..Len(mutation.result.keys) :
      (mutation.result.vals[i].tag # "setmod" /\ GivenFields.vals[i].tag # "undef") =>
        ~checkNewCount(FieldProperty(i), NumValues(mutation.result.vals[i]))

\* a payload that gives two values to a property with maxCount 1 compiled
C1_TooManyValuesCompiled ==
  /\ Compiled
  /\ \E i \in 1..Len(mutation.result.keys) :
       /\ FieldProperty(i).maxCount = Some(1)
       /\ mutation.result.vals[i].tag = "arr"
       /\ Len(mutation.result.vals[i].vals) = 2

\* C6: an object value is compiled as a set modification exactly when add and/or remove
\* are among its keys and it has no other key.
C6_SetModificationIffOnlyAddRemove ==
  Compiled =>
    \A pair \in ObjectPairs :
      ~HasKey(pair[1], "shape") =>
        (pair[2].tag = "setmod"
           <=> /\ Len(pair[1].keys) > 0
               /\ \A i \in 1..Len(pair[1].keys) : pair[1].keys[i] \in {"add", "remove"})

\* an object with an add key and a property key was compiled as a set modification
C6_AddWithOtherKeyCompiled ==
  /\ Compiled
  /\ \E pair \in ObjectPairs : pair[1].keys = <<"add", "name">> /\ pair[2].tag = "setmod"

InitTrace ==
  /\ RegistryLoaded
  /\ \E c \in {"Person", "Employee", "Pet"} :
       nodes = <<[QueryNode("shape", c, "", 0, <<>>) EXCEPT !.visible = TRUE]>>
  /\ reads = <<(<<>>)>>
  /\ traceError = FALSE
  /\ whereStack = <<>> /\ evaluations = <<>>
  /\ MutationIdle /\ SelectIdle /\ UtilIdle /\ StorageIdle

NextTrace == \E n \in 1..Len(nodes), key \in Labels : ReadProperty(n, key)

SpecTrace == InitTrace /\ [][NextTrace]_vars

\* C5: the property path of a value reached from the root by a chain of N reads of
\* registered properties has exactly N steps, the matched PropertyShapes in read order.
C5_PathIsTheChainOfReads ==
  \A n \in 1..Len(nodes) :
    nodes[n].visible =>
      /\ getPropertyPath(nodes, n, <<>>) = reads[n]
      /\ \A i \in 1..Len(reads[n]) :
           \E c \in ShapeClasses :
             \E j \in 1..Len(shape[c].propertyShapes) :
               shape[c].propertyShapes[j].id = reads[n][i]

\* a literal was reached through three reads, two of them on multi-valued properties
C5_ThreeReadsThroughSets ==
  \E n \in 1..Len(nodes) :
    /\ nodes[n].visible
    /\ nodes[n].kind = "primset"
    /\ Len(reads[n]) = 3
    /\ reads[n][1] # reads[n][2]
    /\ nodes[nodes[n].subject].kind = "set"

\* no document (a server), a document still loading, or a loaded document
InitSelect ==
  /\ RegistryLoaded
  /\ readyState \in {"none", "loading", "complete"}
  /\ factory = NoFactory
  /\ tasks = {}
  /\ received = <<>>
  /\ MutationIdle /\ TraceIdle /\ StorageIdle /\ UtilIdle

NextSelect ==
  \/ \E c \in {"Person", "Employee", "Pet"}, selectFn \in BuildFns : Select(c, selectFn)
  \/ NextTick
  \/ DOMContentLoaded
  \/ Timeout

SpecSelect == InitSelect /\ [][NextSelect]_vars

\* C8: every select query a store receives was serialized after the factory's build step
\* had run, and holds the paths the query callback traced.
C8_SerializedAfterBuild ==
  \A i \in 1..Len(received) :
    /\ received[i].built
    /\ received[i].select = queryBuildFn(Registry, factory.shape, factory.queryBuildFn)

\* a query was serialized while its factory waited for the document to load
C8_SerializedWhileLoading ==
  /\ Len(received) = 1
  /\ ~received[1].built
  /\ received[1].select = <<>>
  /\ queryBuildFn(Registry, factory.shape, factory.queryBuildFn) # <<>>

InitStorage == RegistryLoaded /\ StorageIdle /\ MutationIdle /\ TraceIdle /\ SelectIdle /\ UtilIdle

NextStorage ==
  \/ \E store \in Stores \cup {""} : setDefaultStore(store)
  \/ \E store \in Stores, c \in ShapeClasses : setStoreForShapes(store, c)
  \/ \E method \in QueryMethods, q \in QueryShapeRefs : StorageQuery(method, q)

SpecStorage == InitStorage /\ [][NextStorage]_vars

\* the class a query's shape field stands for, "" when it stands for none
QueryShapeClass(q) ==
  CASE q.kind = "class" -> q.ref
    [] q.kind = "nodeShape" ->
         IF \E c \in ShapeClasses : shape[c].id = q.ref /\ nodeShapeToShapeClass[c] # ""
         THEN CHOOSE c \in ShapeClasses : shape[c].id = q.ref
         ELSE ""
    [] OTHER -> ""

\* the store a query on class c belongs to under `map`: that of the first class of c's
\* inheritance chain that has one, the default store when none has
NearestStore(map, default, c) ==
  LET chain == PrototypeChain(c)
      mapped == {i \in 1..Len(chain) : map[chain[i]] # ""}
  IN IF mapped = {} THEN default
     ELSE map[chain[CHOOSE i \in mapped : \A j \in mapped : i <= j]]

\* C9: a query that LinkedStorage dispatches goes to the store mapped to the nearest class
\* of the query shape's inheritance chain, and to the default store only when no class of
\* the chain is mapped; no other store method is invoked.
C9_DispatchedToNearestMappedStore ==
  [][(lastCall'.op \in QueryMethods /\ lastCall'.outcome = "dispatched") =>
       /\ lastCall'.store =
            NearestStore(shapeToStore, defaultStore, QueryShapeClass(lastCall'.shape))
       /\ storeCalls' = {<<lastCall'.store, lastCall'.op>>}]_vars

\* an update on Employee went to the store mapped to Person while a default store was set
C9_InheritedStoreUsed ==
  /\ lastCall.op = "updateQuery"
  /\ lastCall.outcome = "dispatched"
  /\ lastCall.shape = QueryRef("nodeShape", getNodeShapeUri(packageName, "Employee"))
  /\ shapeToStore["Employee"] = ""
  /\ shapeToStore["Person"] = "writeStore"
  /\ defaultStore = "fullStore"
  /\ lastCall.store = "writeStore"
  /\ storeCalls = {<<"writeStore", "updateQuery">>}

\* C10: a query for which no store is resolved, or whose store lacks the method, ends in a
\* rejected promise: the call does not throw and invokes no store method.
C10_NoUsableStoreRejects ==
  lastCall.op \in QueryMethods =>
    /\ lastCall.outcome \in {"dispatched", "rejected"}
    /\ (lastCall.store = "" \/ lastCall.op \notin StoreMembers(lastCall.store)) =>
         (lastCall.outcome = "rejected" /\ storeCalls = {})

\* a select was rejected because no store is set, and no store method was invoked
C10_RejectedWithoutStore ==
  /\ lastCall.op = "selectQuery"
  /\ lastCall.store = ""
  /\ defaultStore = ""
  /\ lastCall.outcome = "rejected"
  /\ storeCalls = {}

(***************************************************************************)
(* The mutation entry points, with a store configured or not.              *)
(***************************************************************************)
\* the property values of the payloads the entry points are called with: values that
\* compile and one for each kind of conversion error
EntryValues ==
  {Lit("a"), Undef, Arr(<<Arr(<<Lit("a")>>)>>), Arr(<<Obj(<<"id">>, <<Lit("p2")>>)>>),
   Obj(<<"id">>, <<Lit("p2")>>), Obj(<<"name">>, <<Lit("a")>>),
   Obj(<<"remove">>, <<Lit("p4")>>), Obj(<<"remove">>, <<Obj(<<"id">>, <<Lit("p4")>>)>>),
   Obj(<<"add">>, <<Obj(<<"id">>, <<Lit("p3")>>)>>),
   Obj(<<"shape", "name">>, <<Cls("Pet"), Lit("a")>>)}

EntryPayloads == {p \in Payloads : p.vals[Len(p.vals)] \in EntryValues}

InitEntry ==
  /\ RegistryLoaded
  /\ payload \in EntryPayloads
  /\ mutation = NoMutation
  /\ entry = NoEntry
  /\ defaultStore \in {"", "fullStore", "readStore"}
  /\ shapeToStore = [c \in ShapeClasses |-> ""]
  /\ lastCall = NoCall
  /\ storeCalls = {}
  /\ TraceIdle /\ SelectIdle /\ UtilIdle

NextEntry ==
  \/ \E c \in {"Person", "Employee"} : updateQuery("p1", payload, c)
  \/ \E c \in {"Person", "Employee"} : createQuery(payload, c)
  \/ \E c \in {"Person", "Employee"}, ids \in DeleteIds : deleteQuery(ids, c)

SpecEntry == InitEntry /\ [][NextEntry]_vars

\* C11: when the conversion of a create, update or delete call's payload fails, the error
\* is thrown out of the entry point to its caller and no store method is invoked.
C11_ConversionErrorReachesCaller ==
  (entry.op # "" /\ mutation.result.tag = "error") =>
    (entry.outcome = "threw" /\ storeCalls = {})

\* a create call whose payload has an unknown property key returned undefined
C11_CreateErrorSwallowed ==
  /\ entry.op = "create"
  /\ mutation.result.tag = "error"
  /\ entry.outcome = "undefined"
  /\ storeCalls = {}

(***************************************************************************)
(* Deduplicated property shapes against the registry's own lists.          *)
(***************************************************************************)
\* the classes of c's chain that have a NodeShape of their own, closest first
LinkedChain(c) == SelectSeq(PrototypeChain(c), LAMBDA d : hasOwnShape(Registry, d))

\* the place in LinkedChain(c) of the closest class that declares `label`, 0 when none does
DeclaringIndex(c, label) ==
  LET chain == LinkedChain(c)
      has == {i \in 1..Len(chain) :
                \E k \in 1..Len(shape[chain[i]].propertyShapes) :
                  shape[chain[i]].propertyShapes[k].label = label}
  IN IF has = {} THEN 0 ELSE CHOOSE i \in has : \A j \in has : i <= j

\* C12: for every registered class, getUniquePropertyShapes returns one PropertyShape per
\* label declared on the class or an ancestor, each the declaration of the closest class
\* that declares the label, ordered closest class first.
C12_UniquePropertyShapesMostSpecific ==
  \A c \in UserClasses :
    (hasOwnShape(Registry, c) /\ nodeShapeToShapeClass[c] = c) =>
      LET u == getUniquePropertyShapes(Registry, c)
          chain == LinkedChain(c)
          declared == UNION {{shape[chain[i]].propertyShapes[k].label :
                                k \in 1..Len(shape[chain[i]].propertyShapes)} :
                             i \in 1..Len(chain)}
      IN /\ \A i, j \in 1..Len(u) : i # j => u[i].label # u[j].label
         /\ {u[i].label : i \in 1..Len(u)} = declared
         /\ \A i \in 1..Len(u) :
              LET d == chain[DeclaringIndex(c, u[i].label)]
              IN \E k \in 1..Len(shape[d].propertyShapes) : shape[d].propertyShapes[k] = u[i]
         /\ \A i, j \in 1..Len(u) :
              i < j => DeclaringIndex(c, u[i].label) <= DeclaringIndex(c, u[j].label)

\* a subclass redeclares a label of its base class and the deduplicated list of the
\* subclass holds the subclass's declaration
C12_OverrideListedOnce ==
  /\ hasOwnShape(Registry, "Employee") /\ hasOwnShape(Registry, "Person")
  /\ Len(shape["Employee"].propertyShapes) = 1
  /\ Len(shape["Person"].propertyShapes) = 1
  /\ shape["Employee"].propertyShapes[1].label = shape["Person"].propertyShapes[1].label
  /\ shape["Employee"].propertyShapes[1] # shape["Person"].propertyShapes[1]
  /\ getUniquePropertyShapes(Registry, "Employee") = shape["Employee"].propertyShapes

\* C13: a property registered with an explicit minCount of 0 or maxCount of 0 has that 0
\* on its PropertyShape.
C13_ExplicitZeroStored ==
  (lastReg.cls # "" /\ lastReg.stored # None) =>
    /\ (~lastReg.config.required /\ lastReg.config.minCount = Some(0)) =>
          The(lastReg.stored).minCount = Some(0)
    /\ lastReg.config.maxCount = Some(0) => The(lastReg.stored).maxCount = Some(0)

\* a property declared with maxCount 0 was registered and its PropertyShape has no maxCount
C13_ZeroMaxCountDropped ==
  /\ lastReg.cls # "" /\ lastReg.stored # None
  /\ lastReg.inherited = None
  /\ lastReg.config.maxCount = Some(0)
  /\ The(lastReg.stored).maxCount = None

(***************************************************************************)
(* Filter construction inside Person.select(p => ...)                      *)
(***************************************************************************)
FilterLabels == {"name", "friends", "bestFriend"}

InitWhere ==
  /\ RegistryLoaded
  /\ nodes = <<[QueryNode("shape", "Person", "", 0, <<>>) EXCEPT !.visible = TRUE]>>
  /\ reads = <<(<<>>)>>
  /\ traceError = FALSE
  /\ whereStack = <<>> /\ evaluations = <<>>
  /\ MutationIdle /\ SelectIdle /\ UtilIdle /\ StorageIdle

NextWhere ==
  \/ \E n \in 1..Len(nodes), key \in FilterLabels : ReadProperty(n, key)
  \/ \E n \in 1..Len(nodes) : where(n)
  \/ \E e \in 1..Len(evaluations) : whereReturn(e)
  \/ \E n \in 1..Len(nodes) : equals(n)

SpecWhere == InitWhere /\ [][NextWhere]_vars

\* filters combined with and()/or() inside Person.select(p => ...)
NextFilter ==
  \/ \E n \in 1..Len(nodes), key \in FilterLabels : ReadProperty(n, key)
  \/ \E n \in 1..Len(nodes) : equals(n)
  \/ \E e, subQuery \in 1..Len(evaluations) : and(e, subQuery)
  \/ \E e, subQuery \in 1..Len(evaluations) : or(e, subQuery)

SpecFilter == InitWhere /\ [][NextFilter]_vars

\* the value was obtained inside a where() filter callback: it descends from the
\* placeholder such a callback was called with
ObtainedInWhere(ns, n) == ns[RootOf(ns, n)].filter

\* C14: where() called on a value obtained inside a where() filter callback throws: no such
\* call ever gets as far as invoking its own filter callback.
C14_WhereInsideWhereThrows ==
  [][Len(whereStack') > Len(whereStack)
       => ~ObtainedInWhere(nodes, whereStack'[Len(whereStack')].receiver)]_vars

\* a value obtained inside a filter callback carries a filter of its own
C14_NestedFilterProduced ==
  \E n \in 1..Len(nodes) : ObtainedInWhere(nodes, n) /\ nodes[n].wherePath # None

\* C20: the where-path compiled from an evaluation that and()/or() were called on has the
\* evaluation itself as firstPath and an andOr list with one entry per call, in call order,
\* each with the combinator that was called and the sub-filter it was given.
C20_AndOrInCallOrder ==
  \A e \in 1..Len(evaluations) :
    LET ev == evaluations[e]
        w == getWherePath(nodes, ev)
    IN (Len(ev.calls) > 0 /\ ~w.thrown) =>
         /\ w.wherePath.form = "andOr"
         /\ w.wherePath.firstPath =
              <<WhereEvaluationPath(getPropertySteps(nodes, ev.value, <<>>).path, ev.method)>>
         /\ Len(w.wherePath.andOr) = Len(ev.calls)
         /\ \A i \in 1..Len(ev.calls) : w.wherePath.andOr[i] = ev.calls[i]

\* an evaluation on which and(), or() and and() were called, in this order
C20_AndOrAnd ==
  \E e \in 1..Len(evaluations) :
    /\ Len(evaluations[e].calls) = 3
    /\ evaluations[e].calls[1].andOr = "and"
    /\ evaluations[e].calls[2].andOr = "or"
    /\ evaluations[e].calls[3].andOr = "and"
    /\ ~getWherePath(nodes, evaluations[e]).thrown

\* C15: a class gets its NodeShape when linkedShape is first applied to it and keeps it:
\* no step changes the id, label or extends link of a NodeShape a class has, and applying
\* linkedShape again to a class that has one leaves the whole NodeShape, its list of own
\* properties included, as it was.
C15_OneNodeShapePerClass ==
  [][\A c \in UserClasses :
       /\ LinkedShape(c) => shape'[c].id = getNodeShapeUri(packageName, c)
       /\ hasOwnShape(Registry, c) =>
            /\ shape'[c].id = shape[c].id
            /\ shape'[c].label = shape[c].label
            /\ shape'[c].extends = shape[c].extends
       /\ LinkedShapeAgain(c) => shape'[c] = shape[c]]_vars

\* linkedShape was applied again to a class that has own properties and extends another
C15_RegisteredAgain ==
  \E c \in UserClasses :
    /\ lastReg = [NoReg EXCEPT !.cls = c]
    /\ shape[c].propertyShapes # <<>>
    /\ shape[c].extends # ""

\* C16: after every step no NodeShape has two own PropertyShapes with the same label, and
\* the PropertyShape objects a NodeShape has stay where they are in its list: a registration
\* of a label the class has updates that object and adds none.
C16_OwnLabelsUnique ==
  [][\A c \in ShapeClasses :
       LET old == shape[c].propertyShapes
           new == shape'[c].propertyShapes
       IN /\ \A i, j \in 1..Len(new) : new[i].label = new[j].label => i = j
          /\ Len(old) <= Len(new)
          /\ \A i \in 1..Len(old) : new[i].oid = old[i].oid /\ new[i].label = old[i].label
          /\ (\E i \in 1..Len(old) : lastReg'.cls = c /\ lastReg'.label = old[i].label
                                      /\ lastReg' # lastReg)
               => Len(new) = Len(old)]_vars

\* a label was registered a second time on the same class: the first object holds the
\* second declaration
C16_RegisteredTwice ==
  /\ lastReg.stored # None
  /\ nextOid = 3
  /\ The(lastReg.stored).oid = 1
  /\ Len(shape[lastReg.cls].propertyShapes) = 1
  /\ shape[lastReg.cls].propertyShapes[1] = The(lastReg.stored)
  /\ lastReg.config.required
  /\ The(lastReg.stored).minCount = Some(1)

(***************************************************************************)
(* Sub-shape lookups while modules register their shape classes.  A shape  *)
(* class declares a static targetClass of its own or inherits the one of   *)
(* the class it extends.                                                   *)
(***************************************************************************)
InitCache ==
  /\ shape = EmptyRegistry.shape
  /\ shapeCallbacks = EmptyRegistry.shapeCallbacks
  /\ nodeShapeToShapeClass = EmptyRegistry.nodeShapeToShapeClass
  /\ shouldResetCache = FALSE
  /\ resetTimers = 0
  /\ nextOid = 1
  /\ lastReg = NoReg
  /\ defined = [c \in ShapeClasses |-> IF c = "Shape" THEN "closed" ELSE "undefined"]
  /\ \E own \in SUBSET UserClasses :
       targetClass = [c \in ShapeClasses |-> IF c \in own THEN TypeId(c) ELSE ""]
  /\ subShapesCache = EmptyCache
  /\ mostSpecificSubShapesCache = EmptyCache
  /\ MutationIdle /\ TraceIdle /\ SelectIdle /\ UtilIdle /\ StorageIdle

NextCache ==
  \/ \E c \in UserClasses : BeginClass(c)
  \/ \E c \in UserClasses : LinkedShape(c)
  \/ \E c \in UserClasses : EndClass(c)
  \/ \E c \in ShapeClasses : CallGetSubShapesClasses(c)
  \/ \E c \in ShapeClasses : CallGetMostSpecificSubShapes(c)
  \/ ResetCaches

SpecCache == InitCache /\ [][NextCache]_vars

\* C17: while no cache reset is pending, getSubShapesClasses and getMostSpecificSubShapes
\* return for every defined class what a fresh computation over the registered classes
\* returns: its registered subclasses, and those of them that no other one extends.
C17_CachedEqualsFresh ==
  (~shouldResetCache /\ \A d \in ShapeClasses : defined[d] # "open") =>
    \A c \in ShapeClasses :
      defined[c] = "closed" =>
        /\ getSubShapesClasses(Registry, subShapesCache, targetClass, c, "").result
             = filterShapeClasses(Registry, c)
        /\ getMostSpecificSubShapes(Registry, subShapesCache, mostSpecificSubShapesCache,
                                    targetClass, c).result
             = filterShapesToMostSpecific(filterShapeClasses(Registry, c))

\* Employee inherits the targetClass of Person, and the sub-shapes cached for Person are
\* what getSubShapesClasses(Employee) returns
C17_CachedForAnotherClass ==
  /\ ~shouldResetCache
  /\ targetClass["Employee"] = ""
  /\ nodeShapeToShapeClass["Employee"] = "Employee"
  /\ getShapeKey(targetClass, "Employee") = getShapeKey(targetClass, "Person")
  /\ subShapesCache[getShapeKey(targetClass, "Employee")] = Some({"Employee"})

(***************************************************************************)
(* Property reads on single-shape placeholders of shape classes that       *)
(* declare, among others, properties named `subject` and `limit`, and a    *)
(* subclass that overrides `name`.                                         *)
(***************************************************************************)
ProxyDeclarations ==
  LET lit(max) == Config("literalProperty", FALSE, None, max, NoNodeKind, "string", "")
      obj(max, cls) == Config("objectProperty", FALSE, None, max, NoNodeKind, "", cls)
      prop(c, key, config) == [cls |-> c, key |-> key, config |-> config]
      linked(c) == [cls |-> c, key |-> "", config |-> NoConfig]
  IN << prop("Person", "name", lit(Some(1))),
        prop("Person", "subject", lit(Some(1))),
        prop("Person", "limit", lit(Some(1))),
        prop("Person", "bestFriend", obj(Some(1), "Person")),
        prop("Person", "friends", obj(None, "Person")),
        linked("Person"),
        prop("Employee", "name", lit(Some(1))),
        prop("Employee", "department", lit(Some(1))),
        linked("Employee"),
        linked("Pet") >>

ProxyRegistry ==
  [EvaluateModule(EmptyRegistry, ProxyDeclarations) EXCEPT !.shouldResetCache = FALSE, !.resetTimers = 0]

ProxyLabels ==
  {"name", "subject", "limit", "bestFriend", "friends", "department", "equals", "hobby"}

InitProxy ==
  /\ shape = ProxyRegistry.shape
  /\ shapeCallbacks = ProxyRegistry.shapeCallbacks
  /\ nodeShapeToShapeClass = ProxyRegistry.nodeShapeToShapeClass
  /\ shouldResetCache = ProxyRegistry.shouldResetCache
  /\ resetTimers = ProxyRegistry.resetTimers
  /\ nextOid = ProxyRegistry.nextOid
  /\ lastReg = ProxyRegistry.lastReg
  /\ defined = [c \in ShapeClasses |-> "closed"]
  /\ targetClass = OwnTargetClasses
  /\ subShapesCache = EmptyCache
  /\ mostSpecificSubShapesCache = EmptyCache
  /\ \E c \in {"Person", "Employee"} :
       nodes = <<[QueryNode("shape", c, "", 0, <<>>) EXCEPT !.visible = TRUE]>>
  /\ reads = <<(<<>>)>>
  /\ traceError = FALSE
  /\ whereStack = <<>> /\ evaluations = <<>>
  /\ MutationIdle /\ SelectIdle /\ UtilIdle /\ StorageIdle

NextProxy == \E n \in 1..Len(nodes), key \in ProxyLabels : ReadProperty(n, key)

SpecProxy == InitProxy /\ [][NextProxy]_vars

\* the PropertyShape labelled `label` that the nearest class of c's prototype chain with
\* such an own property declares
MostSpecificProperty(c, label) ==
  LET chain == PrototypeChain(c)
      declaring == {i \in 1..Len(chain) : OwnPropertyIndex(Registry, chain[i], label) # 0}
  IN IF declaring = {} THEN None
     ELSE LET d == chain[CHOOSE i \in declaring : \A j \in declaring : i <= j]
          IN Some(shape[d].propertyShapes[OwnPropertyIndex(Registry, d, label)])

\* C18: reading, on a single-shape placeholder, a name registered as a property of its class
\* or of an ancestor returns a new node whose subject is the placeholder and whose property
\* is the most specific PropertyShape with that label; a member of the wrapper itself is
\* returned only for names that are not registered properties.
C18_RegisteredNameReadsProperty ==
  \A n \in 1..Len(nodes), key \in ProxyLabels :
    (nodes[n].visible /\ nodes[n].kind = "shape"
       /\ MostSpecificProperty(nodes[n].cls, key) # None) =>
      LET r == proxifyQueryShape(Registry, nodes, n, key)
          all == nodes \o r.new
      IN /\ ~r.member
         /\ ~r.thrown
         /\ r.value > Len(nodes)
         /\ all[r.value].subject = n
         /\ all[r.value].property = The(MostSpecificProperty(nodes[n].cls, key)).id

\* on a placeholder read from another one, the registered name `subject` gives the
\* placeholder it was read from, the wrapper's own field, and no new node
C18_FieldShadowsProperty ==
  \E n \in 1..Len(nodes) :
    /\ nodes[n].visible /\ nodes[n].kind = "shape" /\ nodes[n].subject # 0
    /\ MostSpecificProperty(nodes[n].cls, "subject") # None
    /\ proxifyQueryShape(Registry, nodes, n, "subject").member
    /\ proxifyQueryShape(Registry, nodes, n, "subject").value = nodes[n].subject

\* C19: reading a registered property on a shape-set placeholder does not throw and merges
\* what its members give: a set-of-primitives node for a literal-typed property, single- or
\* multi-valued, and for an object-typed property a shape set that holds the values of
\* all the members.
C19_SetReadMerges ==
  \A n \in 1..Len(nodes), key \in Labels :
    LET c == getLeastSpecificShape(nodes, n)
        ps == MostSpecificProperty(c, key)
        literal == The(ps).datatype # "" \/ The(ps).nodeKind = Some("Literal")
    IN (nodes[n].visible /\ nodes[n].kind = "set" /\ c # "" /\ ps # None
          /\ (literal \/ The(ps).valueShape # "")) =>
         LET r == ReadQueryShapeSet(Registry, nodes, n, key)
         IN /\ ~r.thrown
            /\ r.value > Len(nodes)
            /\ literal => r.new[r.value].kind = "primset"
            /\ ~literal =>
                 /\ r.new[r.value].kind = "set"
                 /\ {r.new[r.new[r.value].members[i]].subject :
                       i \in 1..Len(r.new[r.value].members)}
                      = {nodes[n].members[i] : i \in 1..Len(nodes[n].members)}

\* the multi-valued literal property nickNames is read on the shape set p.friends: the read
\* throws
C19_MultiValuedLiteralThrows ==
  \E n \in 1..Len(nodes) :
    /\ nodes[n].visible /\ nodes[n].kind = "set"
    /\ nodes[n].property = PropertyById(Registry, nodes[n].property).id
    /\ PropertyById(Registry, nodes[n].property).label = "friends"
    /\ The(MostSpecificProperty("Person", "nickNames")).maxCount = None
    /\ ReadQueryShapeSet(Registry, nodes, n, "nickNames").thrown

(***************************************************************************)
(* Context values.                                                         *)
(***************************************************************************)
InitContext ==
  /\ RegistryIdle /\ MutationIdle /\ TraceIdle /\ SelectIdle /\ StorageIdle /\ UtilIdle

NextContext ==
  \E name \in ContextNames, value \in ContextValues, shapeType \in ShapeTypes \cup {""} :
    setQueryContext(name, value, shapeType)

SpecContext == InitContext /\ [][NextContext]_vars

\* a set the context registry rejects: a result object with an id but no shape type, or a
\* value that is neither a Shape, a query shape nor a result object
RejectedSet(value, shapeType) ==
  \/ value.kind = "object" /\ value.id # None /\ shapeType = ""
  \/ value.kind \notin {"shape", "queryShape"} /\ ~(value.kind = "object" /\ value.id # None)

\* C21: a rejected set leaves the registry as it was; after any other set,
\* getQueryContext(name) returns the query shape of the value that was set, and a name
\* never set successfully reads null.
C21_LastAcceptedSetWins ==
  [][ IF RejectedSet(lastSet'.value, lastSet'.shapeType)
      THEN queryContext' = queryContext
      ELSE LET got == getQueryContext(queryContext', lastSet'.name)
           IN got.kind = "queryShape" /\ got.id = lastSet'.value.id ]_vars

\* a result object with a shape type replaced an earlier context value of the name
C21_LatestValueRead ==
  /\ lastSet.name = "ctx"
  /\ lastSet.value = ContextValue("object", Some("ctx-2"), "")
  /\ lastSet.shapeType = "Person"
  /\ getQueryContext(queryContext, "ctx") = ContextValue("queryShape", Some("ctx-2"), "Person")
  /\ queryContext["user"] # None

(***************************************************************************)
(* Result validation.                                                      *)
(***************************************************************************)
\* the plain object with the keys of ks that have a value in pick (key -> optional value)
RECURSIVE ObjectOf(_, _)
ObjectOf(ks, pick) ==
  IF ks = <<>> THEN Obj(<<>>, <<>>)
  ELSE LET rest == ObjectOf(Tail(ks), pick)
       IN IF pick[Head(ks)] = None THEN rest
          ELSE Obj(<<Head(ks)>> \o rest.keys, <<The(pick[Head(ks)])>> \o rest.vals)

\* the results of one friend: name, n and h, each possibly missing
FriendResults ==
  {ObjectOf(<<"name", "n", "h">>, [name |-> a, n |-> b, h |-> c]) :
     a \in {None, Some(Null), Some(Lit("Moa"))},
     b \in {None, Some(Lit("Moa"))},
     c \in {None, Some(Null), Some(Obj(<<>>, <<>>)),
            Some(Obj(<<"name">>, <<Lit("Jinx")>>))}}

\* the arrays of at most MaxElements friends
MaxElements == 2
FriendArrays ==
  UNION {{Arr(f) : f \in [1..n -> FriendResults]} : n \in 0..MaxElements}

\* p => p.name, p => p.bestFriend.name, p => ({title: p.name})
FlatSelects ==
  {SubQueryPaths(<< <<PropertyQueryStep("name")>> >>),
   SubQueryPaths(<< <<PropertyQueryStep("bestFriend"), PropertyQueryStep("name")>> >>),
   CustomQueryObject(<<"title">>, << <<PropertyQueryStep("name")>> >>)}

\* p => p.friends.name, p => p.friends.select(f => [f.name]),
\* p => p.friends.select(f => ({n: f.name, h: f.bestFriend.name}))
SetSelects ==
  {SubQueryPaths(<< <<PropertyQueryStep("friends"), PropertyQueryStep("name")>> >>),
   SubQueryPaths(<< <<PropertyQueryStep("friends"),
                      SubQueryPaths(<< <<PropertyQueryStep("name")>> >>)>> >>),
   SubQueryPaths(<< <<PropertyQueryStep("friends"),
                      CustomQueryObject(<<"n", "h">>,
                        << <<PropertyQueryStep("name")>>,
                           <<PropertyQueryStep("bestFriend"),
                             PropertyQueryStep("name")>> >>)>> >>)}

FlatResults ==
  {ObjectOf(<<"name", "bestFriend", "title">>, [name |-> a, bestFriend |-> b, title |-> c]) :
     a \in {None, Some(Null), Some(Lit("Semmy"))},
     b \in {None, Some(Null)} \cup {Some(f) : f \in FriendResults},
     c \in {None, Some(Lit("Semmy"))}}

SetResults == {Obj(<<>>, <<>>)} \cup {Obj(<<"friends">>, <<a>>) : a \in FriendArrays}

InitValidation ==
  /\ \E input \in (FlatSelects \X FlatResults) \cup (SetSelects \X SetResults) :
       validation = [select |-> input[1], qResult |-> input[2], outcome |-> ""]
  /\ ContextIdle /\ ChainIdle /\ DeclaredIdle /\ AttachedIdle /\ CachedIdle
  /\ RegistryIdle /\ MutationIdle /\ TraceIdle /\ SelectIdle /\ StorageIdle

NextValidation == CallIsValidResult

SpecValidation == InitValidation /\ [][NextValidation]_vars

RECURSIVE KeysPresent(_, _, _, _)
\* every key that step and the steps of restPath expect is present in qResult, and in
\* every element of it when it is an array
KeysPresent(qResult, step, restPath, nameOverwrite) ==
  IF qResult.tag = "arr"
  THEN \A i \in 1..Len(qResult.vals) :
         KeysPresent(qResult.vals[i], step, restPath, nameOverwrite)
  ELSE IF step.kind = "property"
  THEN LET accessKey == IF nameOverwrite # "" THEN nameOverwrite ELSE step.label
       IN /\ hasOwnProperty(qResult, accessKey)
          /\ Len(restPath) > 0 =>
               KeysPresent(Get(qResult, accessKey), restPath[1], Tail(restPath), "")
  ELSE IF step.kind = "paths"
  THEN \A i \in 1..Len(step.paths) :
         KeysPresent(qResult, step.paths[i][1], Tail(step.paths[i]), "")
  ELSE \A i \in 1..Len(step.keys) :
         /\ hasOwnProperty(qResult, step.keys[i])
         /\ KeysPresent(qResult, step.paths[i][1], Tail(step.paths[i]), step.keys[i])

\* C22: isValidResult returns true exactly when every key the select description expects
\* is present in the result at every nesting level, inside every element of an array too.
C22_ValidIffKeysPresent ==
  validation.outcome # "" =>
    (validation.outcome = "true"
       <=> KeysPresent(validation.qResult, validation.select, <<>>, ""))

\* a result with two friends was validated against a sub-select with a nested path
C22_ArrayValidated ==
  /\ validation.outcome = "true"
  /\ HasKey(validation.qResult, "friends")
  /\ Len(Get(validation.qResult, "friends").vals) = 2
  /\ \E i \in 1..Len(validation.select.paths) :
       Len(validation.select.paths[i]) = 2 /\ validation.select.paths[i][2].kind = "object"

(***************************************************************************)
(* Calls chained onto the promise of Shape.select.                         *)
(***************************************************************************)
ChainLabels == {"name", "bestFriend"}
ChainLimits == {1, 5}

InitChain == InitSelect

NextChain ==
  \/ Select("Person", <<"name">>)
  \/ NextTick
  \/ DOMContentLoaded
  \/ Timeout
  \/ \E whereFn \in ChainLabels : promiseWhere(whereFn)
  \/ \E lim \in ChainLimits : promiseLimit(lim)
  \/ \E sortFn \in ChainLabels, direction \in {"ASC", "DESC"} : promiseSortBy(sortFn, direction)
  \/ promiseOne

SpecChain == InitChain /\ [][NextChain]_vars

\* the chained call k was made before the query was serialized and no later such call
\* of one of the methods ms followed it
LastSyncOf(k, ms) ==
  /\ chained[k].sync
  /\ \A j \in (k + 1)..Len(chained) : ~(chained[j].sync /\ chained[j].method \in ms)

\* C23: the query object the store receives reflects every where, limit, sortBy and one
\* call chained onto the promise before the query was serialized (of two calls setting the
\* same field, the later).
C23_ChainedCallsReflected ==
  \A i \in 1..Len(received), k \in 1..Len(chained) :
    LET call == chained[k]
        q == received[i]
    IN /\ (call.method = "where" /\ LastSyncOf(k, {"where"})) =>
            /\ q.where # None
            /\ The(q.where).method = "equals"
            /\ The(q.where).path = queryBuildFn(Registry, q.shape, <<call.arg>>)[1]
       /\ (call.method = "limit" /\ LastSyncOf(k, {"limit", "one"})) =>
            q.limit = Some(call.arg)
       /\ (call.method = "one" /\ call.sync) => q.singleResult
       /\ (call.method = "one" /\ LastSyncOf(k, {"limit", "one"})) => q.limit = Some(1)
       /\ (call.method = "sortBy" /\ LastSyncOf(k, {"sortBy"})) =>
            /\ q.sortBy # None
            /\ The(q.sortBy).direction = call.direction
            /\ The(q.sortBy).paths = queryBuildFn(Registry, q.shape, <<call.arg>>)

\* the store received a query three calls had been chained onto before it was serialized
C23_ThreeCallsChained ==
  /\ Len(received) = 1
  /\ Len(chained) = 3
  /\ \A k \in 1..3 : chained[k].sync /\ ~chained[k].thrown
  /\ {chained[k].method : k \in 1..3} = {"where", "sortBy", "one"}
  /\ received[1].where # None /\ received[1].sortBy # None /\ received[1].singleResult

(***************************************************************************)
(* Store initialisation.                                                   *)
(***************************************************************************)
\* C24: the step that registers a store defining init(), as the default store or for a
\* shape class, calls that store's init() once.
C24_RegisteredStoreInitialised ==
  [][ \A store \in Stores :
        ( /\ "init" \in StoreMembers(store)
          /\ \/ setDefaultStore(store)
             \/ \E c \in ShapeClasses : setStoreForShapes(store, c) )
        => storeCalls' = {<<store, "init">>} ]_vars

\* a store with an init() routes a shape class and is not the default store
C24_StoreRegisteredForShape ==
  /\ defaultStore # "fullStore"
  /\ \E c \in ShapeClasses : shapeToStore[c] = "fullStore"

(***************************************************************************)
(* The deferred clear of the registry caches.  A class definition is one   *)
(* synchronous run, so it reaches its end; a timer that is due fires once  *)
(* no code is running.                                                     *)
(***************************************************************************)
InitClear == InitRegistry

NextClear ==
  \/ \E c \in UserClasses : BeginClass(c)
  \/ \E c \in UserClasses : LinkedShape(c)
  \/ \E c \in UserClasses : EndClass(c)
  \/ \E c \in UserClasses : CallGetSubShapesClasses(c)
  \/ ResetCaches

SpecClear ==
  /\ InitClear /\ [][NextClear]_vars
  /\ WF_vars(ResetCaches)
  /\ WF_vars(\E c \in UserClasses : LinkedShape(c) \/ EndClass(c))

\* C25: at most one clear is pending at any time; a step that registers a shape leaves one
\* pending; and a pending clear runs, emptying the caches.
C25_RegistrationsCleared ==
  /\ [](resetTimers <= 1)
  /\ [][nodeShapeToShapeClass' # nodeShapeToShapeClass => resetTimers' = 1]_vars
  /\ (resetTimers = 1) ~> (resetTimers = 0 /\ ~shouldResetCache /\ subShapesCache = EmptyCache)

\* three shapes are registered and a cached answer waits for the one pending clear
C25_OneClearForSeveral ==
  /\ resetTimers = 1
  /\ \A c \in UserClasses : hasOwnShape(Registry, c)
  /\ subShapesCache # EmptyCache

(***************************************************************************)
(* Where a decorated property is registered.                                *)
(***************************************************************************)
\* the own properties of class c's NodeShape that carry the label
OwnPropertiesLabelled(c, label) ==
  {i \in 1..Len(shape[c].propertyShapes) : shape[c].propertyShapes[i].label = label}

\* C26: a property a decorator declared on a class is, once that class has its NodeShape,
\* registered exactly once among that NodeShape's own properties, and every own property
\* of a NodeShape was declared on its class.
C26_RegisteredOnDeclaringClass ==
  \A c \in UserClasses :
    /\ \A i \in 1..Len(shape[c].propertyShapes) :
         <<c, shape[c].propertyShapes[i].label>> \in decorated
    /\ \A d \in decorated :
         (d[1] = c /\ hasOwnShape(Registry, c)) =>
           Cardinality(OwnPropertiesLabelled(c, d[2])) = 1

\* a class and its subclass each declared a property and both have their NodeShape
C26_BothRegistered ==
  /\ hasOwnShape(Registry, "Person") /\ hasOwnShape(Registry, "Employee")
  /\ \E d, e \in decorated : d[1] = "Person" /\ e[1] = "Employee"
  /\ Len(shape["Person"].propertyShapes) = 1
  /\ Len(shape["Employee"].propertyShapes) = 1

(***************************************************************************)
(* A filter on a set in the paths of the values read through the set.      *)
(***************************************************************************)
\* the query callback holds p.friends, the set it read from its argument p
InitFilteredSet ==
  /\ RegistryLoaded
  /\ LET q == proxifyQueryShape(FixtureRegistry, <<QueryNode("shape", "Person", "", 0, <<>>)>>,
                                1, "friends")
         ns == <<QueryNode("shape", "Person", "", 0, <<>>)>> \o q.new
     IN /\ nodes = [ns EXCEPT ![q.value].visible = TRUE]
        /\ reads = [i \in 1..Len(ns) |-> IF i = q.value THEN <<ns[i].property>> ELSE <<>>]
  /\ traceError = FALSE
  /\ whereStack = <<>> /\ evaluations = <<>>
  /\ MutationIdle /\ SelectIdle /\ UtilIdle /\ StorageIdle

NextFilteredSet ==
  \/ \E n \in 1..Len(nodes), key \in {"name", "bestFriend"} : ReadProperty(n, key)
  \/ \E n \in 1..Len(nodes) : where(n)
  \/ \E e \in 1..Len(evaluations) : whereReturn(e)
  \/ \E n \in 1..Len(nodes) : equals(n)

SpecFilteredSet == InitFilteredSet /\ [][NextFilteredSet]_vars

RECURSIVE SubjectChain(_, _)
\* n's subject, the subject of that, ... up to the root
SubjectChain(ns, n) ==
  IF ns[n].subject = 0 THEN {} ELSE {ns[n].subject} \cup SubjectChain(ns, ns[n].subject)

\* the position of node s's step in the path of a value read through s
StepIndex(ns, s) ==
  Cardinality({a \in SubjectChain(ns, s) \cup {s} : ns[a].property # ""})

\* n was read through set s after the where() call on s had returned: every value on the
\* way from s to n was created after it
ReadThroughFiltered(ns, n, s) ==
  /\ ns[n].visible /\ ~ObtainedInWhere(ns, n)
  /\ s \in SubjectChain(ns, n)
  /\ ns[s].kind = "set" /\ ns[s].wherePath # None
  /\ \E a \in attached :
       /\ a[1] = s
       /\ \A b \in (SubjectChain(ns, n) \cup {n}) \ (SubjectChain(ns, s) \cup {s}) : b > a[2]

\* C27: the serialized path of a value read through a filtered shape set, after the filter
\* was attached, has the filter as the where of the set's step, at any depth.
C27_FilterOnSetStep ==
  \A n \in 1..Len(nodes), s \in 1..Len(nodes) :
    ReadThroughFiltered(nodes, n, s)
    => LET p == getPropertySteps(nodes, n, <<>>)
       IN ~p.thrown =>
            /\ Len(p.path) >= StepIndex(nodes, s)
            /\ p.path[StepIndex(nodes, s)].property = nodes[s].property
            /\ p.path[StepIndex(nodes, s)].where = nodes[s].wherePath

\* a value was read two properties deep through a filtered set
C27_ReadThroughFilteredSet ==
  \E n \in 1..Len(nodes), s \in 1..Len(nodes) :
    /\ ReadThroughFiltered(nodes, n, s)
    /\ nodes[n].subject # s
    /\ ~getPropertySteps(nodes, n, <<>>).thrown

(***************************************************************************)
(* How often a factory's build callback runs.                              *)
(***************************************************************************)
\* C28: the build callback of a factory is never invoked more than once, and has been
\* invoked once when none of the factory's callbacks is left to run, whichever of
\* DOMContentLoaded and the timeout came first.
C28_BuiltExactlyOnce ==
  /\ factory.inits <= 1
  /\ (factory # NoFactory /\ tasks = {}) => factory.inits = 1

\* the factory was built while the document was loading and all its callbacks have run
C28_BuiltAfterWaiting ==
  /\ factory # NoFactory
  /\ tasks = {}
  /\ readyState = "interactive"
  /\ factory.inits >= 1

(***************************************************************************)
(* The caller's payload object across compilations.  In SpecMutation every *)
(* factory is constructed with the object the caller holds, as the         *)
(* compilations before left it.                                            *)
(***************************************************************************)
\* the step constructs a factory whose payload compiles to a node description
CompilesPayload == mutation'.op # "" /\ mutation'.result.tag = "node" /\ mutation'.given = payload

\* C29: compiling a create or update payload leaves the caller's payload object as it was,
\* and a payload object compiled a second time by the same kind of factory for the same
\* shape yields a query object equal to the first.
C29_PayloadNotModified ==
  [][CompilesPayload =>
       /\ payload' = payload
       /\ (Compiled /\ mutation'.op = mutation.op /\ mutation'.shapeClass = mutation.shapeClass)
            => mutation'.result = mutation.result]_vars

\* a payload that names its node with __id was compiled and the caller's object lost the key
C29_IdKeyCompiled ==
  /\ Compiled
  /\ HasKey(mutation.given, "__id")
  /\ mutation.result.id = "n0"
  /\ ~HasKey(payload, "__id")

(***************************************************************************)
(* cached() called with the functions, arguments and time boxes above      *)
(* while time passes.                                                      *)
(***************************************************************************)
CacheTimes == {None, Some(Ms(0)), Some(Ms(1)), Some(Infinity)}

InitCached ==
  /\ RegistryIdle /\ MutationIdle /\ TraceIdle /\ SelectIdle /\ StorageIdle /\ UtilIdle

NextCached ==
  \/ \E fn \in Fns, args \in ArgLists, t \in CacheTimes, errs \in BOOLEAN :
       cached(fn, args, t, errs)
  \/ Tick

SpecCached == InitCached /\ [][NextCached]_vars

\* C30: a call of cached with a time box other than 0 that returns, returns what its own
\* function makes of its own arguments.
C30_ReturnsOwnResult ==
  (lastCached.called /\ lastCached.cacheTimeMs # Some(Ms(0)) /\ ~lastCached.thrown)
    => lastCached.value = Some(ResultOf(lastCached.fn, lastCached.args))

\* a call with a time box found an entry under its key and returned the entry's value
C30_ReturnedFromCache ==
  /\ lastCached.called /\ lastCached.cacheTimeMs = Some(Ms(1)) /\ ~lastCached.thrown
  /\ timeCache[CacheKey(lastCached.args)] # None
  /\ The(timeCache[CacheKey(lastCached.args)]).timeout.kind = "fin"
  /\ The(timeCache[CacheKey(lastCached.args)]).timeout.n < now + 1
====
